---- MODULE Spec2Model ----
(***************************************************************************)
(* Local-socket listeners of the interprocess crate.                       *)
(*                                                                         *)
(* Two state machines share this module:                                   *)
(*   - the Unix domain-socket listener (os/unix/uds_local_socket/          *)
(*     listener.rs): bind, accept, set_nonblocking, name reclamation on    *)
(*     drop, conversions, checked under SpecUnix;                          *)
(*   - the Windows named-pipe listener (os/windows/named_pipe/listener.rs, *)
(*     listener/options.rs, os/windows/local_socket/listener.rs): the      *)
(*     instance-recycling accept and set_nonblocking under the slot lock,  *)
(*     checked under SpecWin.                                              *)
(* Every step between two kernel-visible events (a system call, a lock     *)
(* acquisition) is one action; threads interleave between them.            *)
(***************************************************************************)
EXTENDS Naturals, Sequences, FiniteSets, TLC

VARIABLES
    \* ---- Unix half ----
    sockfile,   \* texts of the socket files present in the filesystem
    absbound,   \* texts bound in the abstract namespace by an open socket
    upc,        \* per thread: position in the Unix listener's life cycle
    ul,         \* per thread: the Listener it owns (listener fd + ReclaimGuard)
    ucall,      \* per thread: arguments of the bind call in progress
    ures,       \* per thread: outcome of its last bind call
    uacc,       \* per thread: outcome of its last accept call
    upending,   \* per thread: clients queued on its listening socket
    nhist,      \* per name: what the API calls made so far did with the name
    \* ---- Windows half ----
    wexists,    \* a PipeListener has been constructed and not dropped
    wcfg,       \* PipeListener.config (PipeListenerOptions)
    wnb,        \* PipeListener.nonblocking (AtomicBool)
    wlock,      \* holder of the stored_instance mutex, or NoThread
    stored,     \* the instance inside the stored_instance mutex
    inst,       \* kernel state of every pipe instance
    nextInst,   \* next unused instance id
    wpc,        \* per thread: position inside accept / set_nonblocking
    wloc,       \* per thread: locals of the call in progress
    wlast,      \* the last event on the pipe: a call's return, a client's attempt
    wsnb,       \* outcome of the last completed set_nonblocking
    wdeg,       \* an accept failed to create the replacement and none succeeded since
    \* ---- Incoming over a listener ----
    ipending,   \* clients connected to the listener and not yet accepted, in order
    iconn,      \* number of clients that have connected so far
    inb,        \* the listener is in nonblocking mode
    ipc,        \* position of the iterator: "noiter", "idle", "in_next"
    inexts,     \* number of calls of next() made
    iaccepts,   \* number of calls of accept() made on the listener
    ilog,       \* results the listener's accept() has returned, in order
    iitems,     \* values next() has returned, in order
    ihint,      \* value of the last size_hint() call
    \* ---- decoding of the errors of the native bind ----
    derr,       \* the error the native bind has just failed with
    din,        \* the error decode_listen_error was last given
    dres,       \* the error it returned for din
    \* ---- the concurrency detector of an instance ----
    cdflag,     \* per guarded instance: a call is inside its native operation
    cdpc,       \* per thread: "idle", or "native" inside a guarded operation
    cdon,       \* per thread: the instance its call in progress is on
    cdcalls,    \* number of guarded calls made so far
    cdlast      \* the last guarded call: caller, instance, admitted or rejected

uvars == <<sockfile, absbound, upc, ul, ucall, ures, uacc, upending, nhist>>
wvars == <<wexists, wcfg, wnb, wlock, stored, inst, nextInst, wpc, wloc, wlast, wsnb,
          wdeg>>
ivars == <<ipending, iconn, inb, ipc, inexts, iaccepts, ilog, iitems, ihint>>
dvars == <<derr, din, dres>>
cvars == <<cdflag, cdpc, cdon, cdcalls, cdlast>>
vars == <<uvars, wvars, ivars, dvars, cvars>>
\* What the steps of one part leave alone.
notUnix == <<wvars, ivars, dvars, cvars>>
notWin == <<uvars, ivars, dvars, cvars>>
notInc == <<uvars, wvars, dvars, cvars>>
notDec == <<uvars, wvars, ivars, cvars>>
notCd == <<uvars, wvars, ivars, dvars>>

Threads == {"t1", "t2"}
NoThread == "none"
\* Threads that also accept, change the mode of and convert their Unix listener;
\* those calls touch nothing outside the caller's own listener.
Servers == {"t1"}

\* Bounds of the model.
MaxClients == 1     \* clients queued on one Unix listening socket
MaxInst == 3        \* pipe instances ever created by the Windows listener
MaxConn == 3        \* clients that connect to the listener Incoming borrows
MaxNext == 4        \* calls of Incoming::next
MaxCalls == 6       \* calls made into operations a concurrency detector guards

(***************************************************************************)
(* Names and errors                                                        *)
(***************************************************************************)
PathA   == [kind |-> "path", text |-> "a"]
PathBad == [kind |-> "path", text |-> "a\\0"]
NsA     == [kind |-> "ns",   text |-> "a"]
Names   == {PathA, PathBad, NsA}
NoName  == [kind |-> "none", text |-> ""]

\* Texts no native address can hold (an interior NUL).
Unaddressable == {"a\\0"}

OkRes == [raw |-> "none", kind |-> "Ok"]
NoRes == [raw |-> "none", kind |-> "none"]

\* std's io::Error::kind() of a raw errno (Unix).
UnixKind(raw) ==
    CASE raw = "EADDRINUSE"    -> "AddrInUse"
      [] raw = "EEXIST"        -> "AlreadyExists"
      [] raw = "EACCES"        -> "PermissionDenied"
      [] raw = "EPERM"         -> "PermissionDenied"
      [] raw = "EAGAIN"        -> "WouldBlock"
      [] raw = "EADDRNOTAVAIL" -> "AddrNotAvailable"
      [] raw = "ENOENT"        -> "NotFound"
      [] raw = "EINVAL"        -> "InvalidInput"
      [] raw = "ENOMEM"        -> "OutOfMemory"
      [] raw = "EROFS"         -> "ReadOnlyFilesystem"
      [] raw = "ENOTDIR"       -> "NotADirectory"
      [] raw = "ELOOP"         -> "FilesystemLoop"
      [] raw = "ENAMETOOLONG"  -> "InvalidFilename"
      [] OTHER                 -> "Uncategorized"

OsErrUnix(raw) == [raw |-> raw, kind |-> UnixKind(raw)]
\* io::Error::from(kind): carries no OS error.
KindErr(kind) == [raw |-> "none", kind |-> kind]

\* Mutant of decode_listen_error: every error is rebuilt from its kind, the
\* OS error is lost.
decode_listen_error_KindOnly(error) ==
    IF error.kind = "AlreadyExists" THEN KindErr("AddrInUse") ELSE KindErr(error.kind)

\* Mutant of decode_listen_error: the two kinds of the match swapped.
decode_listen_error_Swapped(error) ==
    IF error.kind = "AddrInUse" THEN KindErr("AlreadyExists") ELSE error

\* Listener::decode_listen_error
decode_listen_error(error) ==
    IF error.kind = "AlreadyExists" THEN KindErr("AddrInUse") ELSE error

\* name_to_addr: a path name becomes a pathname address, a namespaced name an
\* abstract-namespace address; a text no address can hold is refused.
name_to_addr(name) ==
    IF name.text \in Unaddressable
    THEN [ok |-> FALSE, family |-> "none", path |-> "", err |-> KindErr("InvalidInput")]
    ELSE IF name.kind = "path"
         THEN [ok |-> TRUE, family |-> "pathname", path |-> name.text, err |-> OkRes]
         ELSE [ok |-> TRUE, family |-> "abstract", path |-> name.text, err |-> OkRes]

\* bind(2) + listen(2) as UnixListener::bind_addr performs them: the kernel
\* creates the socket file (or the abstract binding) atomically or refuses.
NativeBind(addr) ==
    IF addr.family = "pathname"
    THEN IF addr.path \in sockfile THEN OsErrUnix("EADDRINUSE") ELSE OkRes
    ELSE IF addr.path \in absbound THEN OsErrUnix("EADDRINUSE") ELSE OkRes

(***************************************************************************)
(* Unix listener                                                           *)
(***************************************************************************)
NoListener ==
    [name |-> NoName, fdOpen |-> FALSE, reclaim |-> NoName, nonblocking |-> FALSE,
     how |-> "none", forgot |-> FALSE, accepted |-> FALSE]

NoCall == [name |-> NoName, keep |-> FALSE, raced |-> FALSE]

NoBindRes == [name |-> NoName, keep |-> FALSE, res |-> NoRes, prior |-> "none",
              raced |-> FALSE]

\* ReclaimGuard::new: only a filesystem path is ever reclaimed.
ReclaimGuardNew(name) == IF name.kind = "path" THEN name ELSE NoName

\* Mutant of BindGuard: keep_name ignored, no guard is ever made.
BindGuard_Never(name, keep_name) == NoName

\* Mutant of BindGuard: keep_name ignored, a guard is always made.
BindGuard_Always(name, keep_name) == ReclaimGuardNew(name)

\* Mutant of BindGuard: the name is stored as it is, whatever its kind.
BindGuard_AnyKind(name, keep_name) == IF keep_name THEN name ELSE NoName

\* The `reclaim` field initialiser of Listener::_bind.
BindGuard(name, keep_name) == IF keep_name THEN ReclaimGuardNew(name) ELSE NoName

\* The name occupies its namespace (socket file present / abstract name bound).
Occupied(name) ==
    IF name.kind = "path" THEN name.text \in sockfile ELSE name.text \in absbound

\* What the calls made so far did with a name, as the caller knows it: never
\* bound ("fresh"), held by a listener ("live"), being dropped ("dropping"), or
\* dropped, and then by which calls the dropped listener had been set up.
DropHist(l) ==
    IF l.forgot THEN "dropped_forgot"
    ELSE IF l.how = "bind_without" THEN "dropped_without"
    ELSE IF l.accepted THEN "dropped_bind_accepted"
    ELSE "dropped_bind"

UnixInit ==
    /\ sockfile = {}
    /\ absbound = {}
    /\ upc = [t \in Threads |-> "idle"]
    /\ ul = [t \in Threads |-> NoListener]
    /\ ucall = [t \in Threads |-> NoCall]
    /\ ures = [t \in Threads |-> NoBindRes]
    /\ uacc = [t \in Threads |-> NoRes]
    /\ upending = [t \in Threads |-> 0]
    /\ nhist = [n \in Names |-> "fresh"]

\* The outcome of a call is read by the caller before its next call.
Consume(t) ==
    /\ ures' = [ures EXCEPT ![t] = NoBindRes]
    /\ uacc' = [uacc EXCEPT ![t] = NoRes]

\* Mutant of UBindCall: the failure of the conversion is ignored.
UBindCall_NoCheck(t, name, keep) ==
    /\ upc[t] = "idle"
    /\ upc' = [upc EXCEPT ![t] = "binding"]
    /\ ucall' = [ucall EXCEPT ![t] = [name |-> name, keep |-> keep, raced |-> FALSE]]
    /\ ures' = [ures EXCEPT ![t] = NoBindRes]
    /\ UNCHANGED <<sockfile, absbound, ul, uacc, upending, nhist>>
    /\ UNCHANGED notUnix

\* Listener::_bind up to the native call: name_to_addr(name.borrow())?
UBindCall(t, name, keep) ==
    /\ upc[t] = "idle"
    /\ LET a == name_to_addr(name) IN
       IF a.ok
       THEN /\ upc' = [upc EXCEPT ![t] = "binding"]
            /\ ucall' = [ucall EXCEPT ![t] =
                   [name |-> name, keep |-> keep,
                    raced |-> \E u \in Threads \ {t} :
                                 upc[u] = "binding" /\ ucall[u].name = name]]
            /\ ures' = [ures EXCEPT ![t] = NoBindRes]
       ELSE /\ ures' = [ures EXCEPT ![t] =
                   [name |-> name, keep |-> keep, res |-> a.err, prior |-> nhist[name],
                    raced |-> FALSE]]
            /\ UNCHANGED <<upc, ucall>>
    /\ UNCHANGED <<sockfile, absbound, ul, uacc, upending, nhist>>
    /\ UNCHANGED notUnix

\* Mutant of UBindSyscall: the guard is made before the native call, and the
\* `?` of a failed bind drops it.
UBindSyscall_GuardBeforeBind(t) ==
    /\ upc[t] = "binding"
    /\ LET name == ucall[t].name
           addr == name_to_addr(name)
           r    == NativeBind(addr)
           out  == IF r.kind = "Ok" THEN r ELSE decode_listen_error(r)
           raced == ucall[t].raced
                    \/ \E u \in Threads \ {t} : upc[u] = "binding" /\ ucall[u].name = name
       IN
       /\ ures' = [ures EXCEPT ![t] =
              [name |-> name, keep |-> ucall[t].keep, res |-> out,
               prior |-> nhist[name], raced |-> raced]]
       /\ ucall' = [u \in Threads |->
              IF u = t THEN NoCall
              ELSE IF upc[u] = "binding" /\ ucall[u].name = name
                   THEN [ucall[u] EXCEPT !.raced = TRUE]
                   ELSE ucall[u]]
       /\ IF r.kind = "Ok"
          THEN /\ upc' = [upc EXCEPT ![t] = "bound"]
               /\ ul' = [ul EXCEPT ![t] =
                      [name |-> name, fdOpen |-> TRUE,
                       reclaim |-> BindGuard(name, ucall[t].keep),
                       nonblocking |-> FALSE,
                       how |-> IF ucall[t].keep THEN "bind" ELSE "bind_without",
                       forgot |-> FALSE, accepted |-> FALSE]]
               /\ sockfile' = IF addr.family = "pathname"
                              THEN sockfile \cup {addr.path} ELSE sockfile
               /\ absbound' = IF addr.family = "abstract"
                              THEN absbound \cup {addr.path} ELSE absbound
               /\ nhist' = [nhist EXCEPT ![name] = "live"]
          ELSE /\ upc' = [upc EXCEPT ![t] = "idle"]
               /\ sockfile' = IF BindGuard(name, ucall[t].keep).kind = "path"
                              THEN sockfile \ {name.text} ELSE sockfile
               /\ UNCHANGED <<ul, absbound, nhist>>
    /\ UNCHANGED <<uacc, upending>>
    /\ UNCHANGED notUnix

\* Listener::_bind, the native call and the construction of Self.
UBindSyscall(t) ==
    /\ upc[t] = "binding"
    /\ LET name == ucall[t].name
           addr == name_to_addr(name)
           r    == NativeBind(addr)
           out  == IF r.kind = "Ok" THEN r ELSE decode_listen_error(r)
           raced == ucall[t].raced
                    \/ \E u \in Threads \ {t} : upc[u] = "binding" /\ ucall[u].name = name
       IN
       /\ ures' = [ures EXCEPT ![t] =
              [name |-> name, keep |-> ucall[t].keep, res |-> out,
               prior |-> nhist[name], raced |-> raced]]
       /\ ucall' = [u \in Threads |->
              IF u = t THEN NoCall
              ELSE IF upc[u] = "binding" /\ ucall[u].name = name
                   THEN [ucall[u] EXCEPT !.raced = TRUE]
                   ELSE ucall[u]]
       /\ IF r.kind = "Ok"
          THEN /\ upc' = [upc EXCEPT ![t] = "bound"]
               /\ ul' = [ul EXCEPT ![t] =
                      [name |-> name, fdOpen |-> TRUE,
                       reclaim |-> BindGuard(name, ucall[t].keep),
                       nonblocking |-> FALSE,
                       how |-> IF ucall[t].keep THEN "bind" ELSE "bind_without",
                       forgot |-> FALSE, accepted |-> FALSE]]
               /\ sockfile' = IF addr.family = "pathname"
                              THEN sockfile \cup {addr.path} ELSE sockfile
               /\ absbound' = IF addr.family = "abstract"
                              THEN absbound \cup {addr.path} ELSE absbound
               /\ nhist' = [nhist EXCEPT ![name] = "live"]
          ELSE /\ upc' = [upc EXCEPT ![t] = "idle"]
               /\ UNCHANGED <<ul, sockfile, absbound, nhist>>
    /\ UNCHANGED <<uacc, upending>>
    /\ UNCHANGED notUnix

\* Closing the listening descriptor: an abstract name dies with its socket, a
\* socket file stays behind.
CloseFd(t) ==
    /\ absbound' = IF ul[t].name.kind = "ns" THEN absbound \ {ul[t].name.text} ELSE absbound
    /\ upending' = [upending EXCEPT ![t] = 0]

\* Listener::accept, entry.
UAcceptCall(t) ==
    /\ upc[t] = "bound"
    /\ upc' = [upc EXCEPT ![t] = "accepting"]
    /\ Consume(t)
    /\ UNCHANGED <<sockfile, absbound, ul, ucall, upending, nhist>>
    /\ UNCHANGED notUnix

\* Listener::accept, the return of self.listener.accept(): a queued client is
\* handed out; with none queued the call fails with EAGAIN on a nonblocking
\* descriptor and stays blocked otherwise.
UAcceptReturn(t) ==
    /\ upc[t] = "accepting"
    /\ upending[t] > 0 \/ ul[t].nonblocking
    /\ upc' = [upc EXCEPT ![t] = "bound"]
    /\ IF upending[t] > 0
       THEN /\ upending' = [upending EXCEPT ![t] = @ - 1]
            /\ ul' = [ul EXCEPT ![t].accepted = TRUE]
            /\ uacc' = [uacc EXCEPT ![t] = OkRes]
       ELSE /\ uacc' = [uacc EXCEPT ![t] = OsErrUnix("EAGAIN")]
            /\ UNCHANGED <<upending, ul>>
    /\ UNCHANGED <<sockfile, absbound, ucall, ures, nhist>>
    /\ UNCHANGED notUnix

\* Listener::set_nonblocking: the flag of the listening descriptor.
USetNonblocking(t, nonblocking) ==
    /\ upc[t] = "bound"
    /\ ul' = [ul EXCEPT ![t].nonblocking = nonblocking]
    /\ Consume(t)
    /\ UNCHANGED <<sockfile, absbound, upc, ucall, upending, nhist>>
    /\ UNCHANGED notUnix

\* Mutant of UForget: the call leaves the guard as it is.
UForget_Noop(t) ==
    /\ upc[t] = "bound"
    /\ ul' = [ul EXCEPT ![t].forgot = TRUE]
    /\ Consume(t)
    /\ UNCHANGED <<sockfile, absbound, upc, ucall, upending, nhist>>
    /\ UNCHANGED notUnix

\* Listener::do_not_reclaim_name_on_drop: self.reclaim.forget()
UForget(t) ==
    /\ upc[t] = "bound"
    /\ ul' = [ul EXCEPT ![t].reclaim = NoName, ![t].forgot = TRUE]
    /\ Consume(t)
    /\ UNCHANGED <<sockfile, absbound, upc, ucall, upending, nhist>>
    /\ UNCHANGED notUnix

\* Mutant of UDropClose: the fields are dropped in the other order, the guard
\* removes the file while the descriptor is still open.
UDropClose_GuardFirst(t) ==
    /\ upc[t] = "bound"
    /\ upc' = [upc EXCEPT ![t] = "dropping"]
    /\ sockfile' = IF ul[t].reclaim.kind = "path"
                   THEN sockfile \ {ul[t].reclaim.text} ELSE sockfile
    /\ nhist' = [nhist EXCEPT ![ul[t].name] = "dropping"]
    /\ Consume(t)
    /\ UNCHANGED <<absbound, upending, ul, ucall>>
    /\ UNCHANGED notUnix

\* Drop of a Listener, first field: the UnixListener closes its descriptor.
UDropClose(t) ==
    /\ upc[t] = "bound"
    /\ upc' = [upc EXCEPT ![t] = "dropping"]
    /\ ul' = [ul EXCEPT ![t].fdOpen = FALSE]
    /\ CloseFd(t)
    /\ nhist' = [nhist EXCEPT ![ul[t].name] = "dropping"]
    /\ Consume(t)
    /\ UNCHANGED <<sockfile, ucall>>
    /\ UNCHANGED notUnix

\* ReclaimGuard's drop: remove_file on the held path, its result discarded.
ReclaimGuardDrop(guard) ==
    IF guard.kind = "path" THEN sockfile \ {guard.text} ELSE sockfile

\* Drop of a Listener, second field: the ReclaimGuard.
UDropReclaim(t) ==
    /\ upc[t] = "dropping"
    /\ upc' = [upc EXCEPT ![t] = "idle"]
    /\ sockfile' = ReclaimGuardDrop(ul[t].reclaim)
    /\ nhist' = IF nhist[ul[t].name] = "dropping"
                THEN [nhist EXCEPT ![ul[t].name] = DropHist(ul[t])]
                ELSE nhist   \* the name has been bound again in the meantime
    /\ ul' = [ul EXCEPT ![t] = NoListener]
    /\ UNCHANGED <<absbound, ucall, ures, uacc, upending>>
    /\ UNCHANGED notUnix

\* Mutant of UDropReclaimDenied: the failure of the deletion reaches the
\* thread and the listener is not released.
UDropReclaimDenied_Raises(t) ==
    /\ upc[t] = "dropping"
    /\ ul[t].reclaim.kind = "path"
    /\ ul[t].reclaim.text \in sockfile
    /\ upc' = [upc EXCEPT ![t] = "idle"]
    /\ uacc' = [uacc EXCEPT ![t] = OsErrUnix("EACCES")]
    /\ nhist' = [nhist EXCEPT ![ul[t].name] = "dropped_undeleted"]
    /\ ul' = [ul EXCEPT ![t] = NoListener]
    /\ UNCHANGED <<sockfile, absbound, ucall, ures, upending>>
    /\ UNCHANGED notUnix

\* Drop of a Listener, second field, when remove_file is refused (EACCES): the
\* file stays, the result is discarded, the drop goes on.
UDropReclaimDenied(t) ==
    /\ upc[t] = "dropping"
    /\ ul[t].reclaim.kind = "path"
    /\ ul[t].reclaim.text \in sockfile
    /\ upc' = [upc EXCEPT ![t] = "idle"]
    /\ nhist' = [nhist EXCEPT ![ul[t].name] = "dropped_undeleted"]
    /\ ul' = [ul EXCEPT ![t] = NoListener]
    /\ UNCHANGED <<sockfile, absbound, ucall, ures, uacc, upending>>
    /\ UNCHANGED notUnix

\* Something outside the program removes a socket file.
UExternalUnlink(name) ==
    /\ name.kind = "path"
    /\ name.text \in sockfile
    /\ sockfile' = sockfile \ {name.text}
    /\ UNCHANGED <<absbound, upc, ul, ucall, ures, uacc, upending, nhist>>
    /\ UNCHANGED notUnix

\* Mutant of UInto: the conversion does not forget the guard.
UInto_KeepGuard(t) ==
    /\ upc[t] = "bound"
    /\ upc' = [upc EXCEPT ![t] = "raw"]
    /\ ul' = [ul EXCEPT ![t].forgot = TRUE]
    /\ Consume(t)
    /\ UNCHANGED <<sockfile, absbound, ucall, upending, nhist>>
    /\ UNCHANGED notUnix

\* Mutant of UInto: the guard is not forgotten and is dropped with the rest of
\* the Listener at the end of the conversion.
UInto_DropsGuard(t) ==
    /\ upc[t] = "bound"
    /\ upc' = [upc EXCEPT ![t] = "raw"]
    /\ sockfile' = ReclaimGuardDrop(ul[t].reclaim)
    /\ ul' = [ul EXCEPT ![t].reclaim = NoName, ![t].forgot = TRUE]
    /\ Consume(t)
    /\ UNCHANGED <<absbound, ucall, upending, nhist>>
    /\ UNCHANGED notUnix

\* From<Listener> for UnixListener / OwnedFd: forget the guard, hand out the fd.
UInto(t) ==
    /\ upc[t] = "bound"
    /\ upc' = [upc EXCEPT ![t] = "raw"]
    /\ ul' = [ul EXCEPT ![t].reclaim = NoName, ![t].forgot = TRUE]
    /\ Consume(t)
    /\ UNCHANGED <<sockfile, absbound, ucall, upending, nhist>>
    /\ UNCHANGED notUnix

\* Drop of the converted UnixListener / OwnedFd: the descriptor is closed.
URawDrop(t) ==
    /\ upc[t] = "raw"
    /\ upc' = [upc EXCEPT ![t] = "idle"]
    /\ CloseFd(t)
    /\ nhist' = [nhist EXCEPT ![ul[t].name] = DropHist(ul[t])]
    /\ ul' = [ul EXCEPT ![t] = NoListener]
    /\ UNCHANGED <<sockfile, ucall, ures, uacc>>
    /\ UNCHANGED notUnix

\* Mutant of UFromFd: the listener made from a descriptor gets a guard for the
\* name the descriptor was bound to.
UFromFd_Reclaims(t) ==
    /\ upc[t] = "raw"
    /\ upc' = [upc EXCEPT ![t] = "bound"]
    /\ ul' = [ul EXCEPT ![t].reclaim = ReclaimGuardNew(ul[t].name)]
    /\ UNCHANGED <<sockfile, absbound, ucall, ures, uacc, upending, nhist>>
    /\ UNCHANGED notUnix

\* From<OwnedFd> for Listener: reclaim is ReclaimGuard::default().
UFromFd(t) ==
    /\ upc[t] = "raw"
    /\ upc' = [upc EXCEPT ![t] = "bound"]
    /\ ul' = [ul EXCEPT ![t].reclaim = NoName]
    /\ UNCHANGED <<sockfile, absbound, ucall, ures, uacc, upending, nhist>>
    /\ UNCHANGED notUnix

\* A client connects to the listening socket of t.
UClientConnect(t) ==
    /\ upc[t] \in {"bound", "accepting"}
    /\ ul[t].fdOpen
    /\ Occupied(ul[t].name)
    /\ upending[t] < MaxClients
    /\ upending' = [upending EXCEPT ![t] = @ + 1]
    /\ UNCHANGED <<sockfile, absbound, upc, ul, ucall, ures, uacc, nhist>>
    /\ UNCHANGED notUnix

UnixNext ==
    \/ \E t \in Threads, name \in Names, keep \in BOOLEAN : UBindCall(t, name, keep)
    \/ \E t \in Threads : UBindSyscall(t)
    \/ \E t \in Threads : UForget(t)
    \/ \E t \in Threads : UDropClose(t)
    \/ \E t \in Threads : UDropReclaim(t)
    \/ \E t \in Servers : UAcceptCall(t)
    \/ \E t \in Servers : UAcceptReturn(t)
    \/ \E t \in Servers, b \in BOOLEAN : USetNonblocking(t, b)
    \/ \E t \in Servers : UInto(t)
    \/ \E t \in Servers : URawDrop(t)
    \/ \E t \in Servers : UFromFd(t)
    \/ \E t \in Servers : UClientConnect(t)

(***************************************************************************)
(* Windows named-pipe listener                                             *)
(***************************************************************************)
InstIds == 1..MaxInst
NoInst == 0

\* PipeListenerOptions::instance_limit: 0 stands for None (no limit).
NoLimit == 0
Limits == {NoLimit, 1, 2}

\* The prefix LocalSocketListener::bind puts before a namespaced name.
PipePrefix == "\\\\.\\pipe\\"

\* std's io::Error::kind() of a raw Win32 error code: none of the pipe codes
\* is one of the socket codes that decode to AddrInUse or WouldBlock.
WinKind(raw) ==
    CASE raw = "ERROR_ACCESS_DENIED"     -> "PermissionDenied"
      [] raw = "ERROR_NO_DATA"           -> "BrokenPipe"
      [] raw = "ERROR_INVALID_PARAMETER" -> "InvalidInput"
      [] raw = "WSAEADDRINUSE"           -> "AddrInUse"
      [] raw = "WSAEWOULDBLOCK"          -> "WouldBlock"
      [] OTHER                           -> "Uncategorized"

\* io::Error::last_os_error()
OsErrWin(raw) == [raw |-> raw, kind |-> WinKind(raw)]

\* PipeListenerOptions::new: the default options (the fields of the struct
\* that decide how an instance is created).
DefaultOptions ==
    [path |-> "", nonblocking |-> FALSE, instance_limit |-> NoLimit,
     write_through |-> FALSE, accept_remote |-> FALSE,
     input_buffer_size_hint |-> 512, output_buffer_size_hint |-> 512]

\* What an instance is created with, apart from its blocking mode: the
\* arguments CreateNamedPipeW gets from the options.
CreateParams(opts) ==
    [path |-> opts.path, instance_limit |-> opts.instance_limit,
     write_through |-> opts.write_through, accept_remote |-> opts.accept_remote,
     input_buffer_size_hint |-> opts.input_buffer_size_hint,
     output_buffer_size_hint |-> opts.output_buffer_size_hint]

NoParams == CreateParams(DefaultOptions)

NoInstance == [st |-> "none", nb |-> FALSE, out |-> 0, made |-> NoParams]
Closed == [st |-> "closed", nb |-> FALSE, out |-> 0, made |-> NoParams]
NoConfig == DefaultOptions
NoLocals == [nonblocking |-> FALSE, new |-> NoInst]

\* An event: the return of a call (with its result and, for accept, the
\* instance inside the returned stream), a client's attempt to connect
\* (res.kind "Ok" or "Refused"), or some other step ("other").
\* A bind or create event also carries the name bind was given and the path
\* handed to the creation of the pipe.
Event(ev, res, i) == [ev |-> ev, res |-> res, inst |-> i, name |-> NoName, path |-> ""]
Other == Event("other", NoRes, NoInst)

\* Server-side handles of the pipe that are open.
OpenInsts == {i \in InstIds : inst[i].st \in {"listening", "connected", "gone"}}

\* The path names a pipe of this machine: the prefix and something after it.
InPipeNamespace(path) ==
    Len(path) > Len(PipePrefix) /\ SubSeq(path, 1, Len(PipePrefix)) = PipePrefix

\* CreateNamedPipeW: a path outside the pipe namespace is refused; the first
\* instance of a name is refused when the name exists, a further one when the
\* pipe already has max_instances of them.
CreateNamedPipe(path, first, limit) ==
    IF ~InPipeNamespace(path) THEN OsErrWin("ERROR_INVALID_NAME")
    ELSE IF first
    THEN IF OpenInsts # {} THEN OsErrWin("ERROR_ACCESS_DENIED") ELSE OkRes
    ELSE IF limit # NoLimit /\ Cardinality(OpenInsts) >= limit
         THEN OsErrWin("ERROR_PIPE_BUSY") ELSE OkRes

\* ConnectNamedPipe on an instance, as the call is issued: a client is already
\* connected, or has connected and gone, or nobody has connected and the call
\* fails at once (nonblocking instance) or blocks ("block").
ConnectNamedPipe(i) ==
    CASE inst[i].st = "connected" -> "ERROR_PIPE_CONNECTED"
      [] inst[i].st = "gone"      -> "ERROR_NO_DATA"
      [] inst[i].st = "listening" /\ inst[i].nb  -> "ERROR_PIPE_LISTENING"
      [] OTHER -> "block"

\* Mutant of block_on_connect: the last error is returned whatever it is.
block_on_connect_AnyErrorFails(native) ==
    IF native = "success" THEN OkRes ELSE OsErrWin(native)

\* block_on_connect, given what ConnectNamedPipe returned ("success" for a
\* nonzero return, else the last OS error).
block_on_connect(native) ==
    IF native = "success" THEN OkRes
    ELSE IF native = "ERROR_PIPE_CONNECTED" THEN OkRes
    ELSE OsErrWin(native)

\* std::path on Windows: the text starts with a drive prefix (C:), with a UNC
\* or device prefix (two separators); it has a root.
DrivePrefix(text) == Len(text) >= 2 /\ SubSeq(text, 2, 2) = ":"
UncPrefix(text) == Len(text) >= 2 /\ SubSeq(text, 1, 2) = "\\\\"
HasPrefix(text) == DrivePrefix(text) \/ UncPrefix(text)
HasRoot(text) ==
    \/ UncPrefix(text)
    \/ DrivePrefix(text) /\ Len(text) >= 3 /\ SubSeq(text, 3, 3) = "\\"
    \/ ~DrivePrefix(text) /\ Len(text) >= 1 /\ SubSeq(text, 1, 1) = "\\"

\* The prefix component of a base that is a prefix and a root: all but the
\* root separator at its end.
PrefixOf(base) == IF base = "" THEN "" ELSE SubSeq(base, 1, Len(base) - 1)

\* PathBuf::push, as collect::<PathBuf>() applies it to each element: a path
\* with a prefix replaces the base, a rooted path replaces all but the prefix
\* of the base, any other path is appended.
PathPush(base, path) ==
    IF HasPrefix(path) THEN path
    ELSE IF HasRoot(path) THEN PrefixOf(base) \o path
    ELSE IF base = "" \/ SubSeq(base, Len(base), Len(base)) = "\\" THEN base \o path
    ELSE base \o "\\" \o path

\* LocalSocketListener::bind, the path option it builds from the name.
BindPath(name) ==
    IF name.kind = "ns" THEN PathPush(PathPush("", PipePrefix), name.text) ELSE name.text

WinInit ==
    /\ wexists = FALSE
    /\ wcfg = NoConfig
    /\ wnb = FALSE
    /\ wlock = NoThread
    /\ stored = NoInst
    /\ inst = [i \in InstIds |-> NoInstance]
    /\ nextInst = 1
    /\ wpc = [t \in Threads |-> "idle"]
    /\ wloc = [t \in Threads |-> NoLocals]
    /\ wlast = Event("none", NoRes, NoInst)
    /\ wsnb = "none"
    /\ wdeg = FALSE

\* PipeListenerOptions::create: _create makes the first instance from the
\* options, the listener takes the options' nonblocking as its flag.
PipeCreate(t, call, opts) ==
    /\ wpc[t] = "idle"
    /\ LET r == CreateNamedPipe(opts.path, TRUE, opts.instance_limit) IN
       IF r.kind = "Ok"
       THEN /\ ~wexists
            /\ wexists' = TRUE
            /\ wcfg' = opts
            /\ wnb' = opts.nonblocking
            /\ stored' = nextInst
            /\ inst' = [inst EXCEPT ![nextInst] =
                   [st |-> "listening", nb |-> opts.nonblocking, out |-> 0,
                    made |-> CreateParams(opts)]]
            /\ nextInst' = nextInst + 1
       ELSE UNCHANGED <<wexists, wcfg, wnb, stored, inst, nextInst>>
    /\ wlast' = [call EXCEPT !.res = CreateNamedPipe(opts.path, TRUE, opts.instance_limit),
                            !.path = opts.path]
    /\ UNCHANGED <<wlock, wpc, wloc, wsnb>>
    /\ UNCHANGED wdeg
    /\ UNCHANGED notWin

\* PipeListenerOptions::create with options of the caller's choice.
WCreate(t, nonblocking, limit) ==
    PipeCreate(t, Event("create", NoRes, NoInst),
               [DefaultOptions EXCEPT !.path = BindPath(NsA), !.nonblocking = nonblocking,
                                      !.instance_limit = limit])

\* Options a caller builds with the setters of PipeListenerOptions.
CallerOptions ==
    { [DefaultOptions EXCEPT !.path = BindPath(NsA)],
      [DefaultOptions EXCEPT !.path = BindPath(NsA), !.write_through = TRUE,
                             !.accept_remote = TRUE, !.input_buffer_size_hint = 0,
                             !.output_buffer_size_hint = 4096],
      [DefaultOptions EXCEPT !.path = BindPath(NsA), !.nonblocking = TRUE,
                             !.instance_limit = 2, !.accept_remote = TRUE,
                             !.input_buffer_size_hint = 4096] }

\* PipeListenerOptions::create on options built with the setters.
WCreateWith(t, opts) == PipeCreate(t, Event("create", NoRes, NoInst), opts)

\* name.to_local_socket_name(): a text no pipe name can hold is refused.
to_local_socket_name(name) ==
    IF name.text \in Unaddressable
    THEN [ok |-> FALSE, err |-> KindErr("InvalidInput")]
    ELSE [ok |-> TRUE, err |-> OkRes]

\* Names given to LocalSocketListener::bind.
WinNames == {NsA, PathBad}

\* A namespaced name whose text is an absolute path of the filesystem.
NsDrive == [kind |-> "ns", text |-> "C:\\a"]
BindNames == WinNames \cup {NsDrive}

\* LocalSocketListener::bind: name.to_local_socket_name()? first; then default
\* options but for the path (and the security descriptor); the result of
\* create() is returned as it is.
WLocalBind(t, name) ==
    IF to_local_socket_name(name).ok
    THEN PipeCreate(t, [Event("bind", NoRes, NoInst) EXCEPT !.name = name],
                    [DefaultOptions EXCEPT !.path = BindPath(name)])
    ELSE /\ wpc[t] = "idle"
         /\ wlast' = [Event("bind", to_local_socket_name(name).err, NoInst)
                         EXCEPT !.name = name]
         /\ UNCHANGED <<wexists, wcfg, wnb, wlock, stored, inst, nextInst, wpc, wloc, wsnb, wdeg>>
         /\ UNCHANGED notWin

\* PipeListener::accept, entry: the call waits for the mutex.
WAcceptCall(t) ==
    /\ wexists
    /\ wpc[t] = "idle"
    /\ wpc' = [wpc EXCEPT ![t] = "acc_lock"]
    /\ UNCHANGED <<wexists, wcfg, wnb, wlock, stored, inst, nextInst, wloc, wlast, wsnb>>
    /\ UNCHANGED wdeg
    /\ UNCHANGED notWin

\* Mutant of WAcceptAcquire: accept goes on to its wait without the mutex
\* being free.
WAcceptAcquire_NoLock(t) ==
    /\ wpc[t] = "acc_lock"
    /\ nextInst <= MaxInst
    /\ wlock' = t
    /\ wloc' = [wloc EXCEPT ![t] = [nonblocking |-> wnb, new |-> NoInst]]
    /\ wpc' = [wpc EXCEPT ![t] = "acc_wait"]
    /\ UNCHANGED <<wexists, wcfg, wnb, stored, inst, nextInst, wlast, wsnb>>
    /\ UNCHANGED wdeg
    /\ UNCHANGED notWin

\* accept: stored_instance.lock() and the load of the nonblocking flag.
WAcceptAcquire(t) ==
    /\ wpc[t] = "acc_lock"
    /\ wlock = NoThread
    /\ nextInst <= MaxInst
    /\ wlock' = t
    /\ wloc' = [wloc EXCEPT ![t] = [nonblocking |-> wnb, new |-> NoInst]]
    /\ wpc' = [wpc EXCEPT ![t] = "acc_wait"]
    /\ UNCHANGED <<wexists, wcfg, wnb, stored, inst, nextInst, wlast, wsnb>>
    /\ UNCHANGED wdeg
    /\ UNCHANGED notWin

\* Mutant of WAcceptWait: a failed wait leaves the function with the guard
\* still alive.
WAcceptWait_KeepsLock(t) ==
    /\ wpc[t] = "acc_wait"
    /\ LET native == ConnectNamedPipe(stored)
           r == block_on_connect(native)
       IN
       IF native = "block"
       THEN /\ wpc' = [wpc EXCEPT ![t] = "acc_blocked"]
            /\ UNCHANGED <<wlock, wloc, wlast>>
       ELSE IF r.kind = "Ok"
       THEN /\ wpc' = [wpc EXCEPT ![t] = "acc_create"]
            /\ UNCHANGED <<wlock, wloc, wlast>>
       ELSE /\ wpc' = [wpc EXCEPT ![t] = "idle"]
            /\ wloc' = [wloc EXCEPT ![t] = NoLocals]
            /\ wlast' = Event("accept", r, NoInst)
            /\ UNCHANGED wlock
    /\ UNCHANGED <<wexists, wcfg, wnb, stored, inst, nextInst, wsnb>>
    /\ UNCHANGED wdeg
    /\ UNCHANGED notWin

\* accept: block_on_connect(stored_instance)?, the call of ConnectNamedPipe.
\* An error leaves through `?`, which drops the guard.
WAcceptWait(t) ==
    /\ wpc[t] = "acc_wait"
    /\ LET native == ConnectNamedPipe(stored)
           r == block_on_connect(native)
       IN
       IF native = "block"
       THEN /\ wpc' = [wpc EXCEPT ![t] = "acc_blocked"]
            /\ UNCHANGED <<wlock, wloc, wlast>>
       ELSE IF r.kind = "Ok"
       THEN /\ wpc' = [wpc EXCEPT ![t] = "acc_create"]
            /\ UNCHANGED <<wlock, wloc, wlast>>
       ELSE /\ wpc' = [wpc EXCEPT ![t] = "idle"]
            /\ wlock' = NoThread
            /\ wloc' = [wloc EXCEPT ![t] = NoLocals]
            /\ wlast' = Event("accept", r, NoInst)
    /\ UNCHANGED <<wexists, wcfg, wnb, stored, inst, nextInst, wsnb>>
    /\ UNCHANGED wdeg
    /\ UNCHANGED notWin

\* Mutant of WAcceptWake: the lock is given up when the wait is over.
WAcceptWake_ReleasesLock(t) ==
    /\ wpc[t] = "acc_blocked"
    /\ inst[stored].st \in {"connected", "gone"}
    /\ wpc' = [wpc EXCEPT ![t] = "acc_create"]
    /\ wlock' = NoThread
    /\ UNCHANGED <<wexists, wcfg, wnb, stored, inst, nextInst, wloc, wlast, wsnb>>
    /\ UNCHANGED wdeg
    /\ UNCHANGED notWin

\* accept: a blocked ConnectNamedPipe returns nonzero once a client has
\* connected to the instance.
WAcceptWake(t) ==
    /\ wpc[t] = "acc_blocked"
    /\ inst[stored].st \in {"connected", "gone"}
    /\ block_on_connect("success").kind = "Ok"
    /\ wpc' = [wpc EXCEPT ![t] = "acc_create"]
    /\ UNCHANGED <<wexists, wcfg, wnb, wlock, stored, inst, nextInst, wloc, wlast, wsnb>>
    /\ UNCHANGED wdeg
    /\ UNCHANGED notWin

\* Mutant of create_instance: the mode comes from the stored options, the
\* value the caller passes is ignored.
create_instance_FromConfig(nonblocking) ==
    LET r == CreateNamedPipe(wcfg.path, FALSE, wcfg.instance_limit) IN
    IF r.kind = "Ok"
    THEN [res |-> r, id |-> nextInst,
          handle |-> [st |-> "listening", nb |-> wcfg.nonblocking, out |-> 0,
                      made |-> CreateParams(wcfg)]]
    ELSE [res |-> r, id |-> NoInst, handle |-> NoInstance]

\* Mutant of create_instance: the further instance is made from fresh default
\* options that are given the path only.
create_instance_NewOptions(nonblocking) ==
    LET fresh == [DefaultOptions EXCEPT !.path = wcfg.path]
        r == CreateNamedPipe(fresh.path, FALSE, fresh.instance_limit) IN
    IF r.kind = "Ok"
    THEN [res |-> r, id |-> nextInst,
          handle |-> [st |-> "listening", nb |-> nonblocking, out |-> 0,
                      made |-> CreateParams(fresh)]]
    ELSE [res |-> r, id |-> NoInst, handle |-> NoInstance]

\* PipeListener::create_instance: a further instance made from the stored
\* options and the nonblocking value the caller passes.
create_instance(nonblocking) ==
    LET r == CreateNamedPipe(wcfg.path, FALSE, wcfg.instance_limit) IN
    IF r.kind = "Ok"
    THEN [res |-> r, id |-> nextInst,
          handle |-> [st |-> "listening", nb |-> nonblocking, out |-> 0,
                      made |-> CreateParams(wcfg)]]
    ELSE [res |-> r, id |-> NoInst, handle |-> NoInstance]

\* Mutant of WAcceptCreate: when the creation fails the instance in the slot
\* is disconnected from its client before the error is returned.
WAcceptCreate_FailureDisconnects(t) ==
    /\ wpc[t] = "acc_create"
    /\ LET c == create_instance(wloc[t].nonblocking) IN
       IF c.res.kind = "Ok"
       THEN /\ inst' = [inst EXCEPT ![c.id] = c.handle]
            /\ nextInst' = nextInst + 1
            /\ wloc' = [wloc EXCEPT ![t].new = c.id]
            /\ wpc' = [wpc EXCEPT ![t] = "acc_swap"]
            /\ wlast' = Other
            /\ UNCHANGED <<wlock, wdeg>>
       ELSE /\ wpc' = [wpc EXCEPT ![t] = "idle"]
            /\ wlock' = NoThread
            /\ wloc' = [wloc EXCEPT ![t] = NoLocals]
            /\ wlast' = Event("accept", c.res, NoInst)
            /\ wdeg' = TRUE
            /\ inst' = [inst EXCEPT ![stored].st = "listening"]
            /\ UNCHANGED nextInst
    /\ UNCHANGED <<wexists, wcfg, wnb, stored, wsnb>>
    /\ UNCHANGED notWin

\* accept: let new_instance = self.create_instance(nonblocking)?
WAcceptCreate(t) ==
    /\ wpc[t] = "acc_create"
    /\ LET c == create_instance(wloc[t].nonblocking) IN
       IF c.res.kind = "Ok"
       THEN /\ inst' = [inst EXCEPT ![c.id] = c.handle]
            /\ nextInst' = nextInst + 1
            /\ wloc' = [wloc EXCEPT ![t].new = c.id]
            /\ wpc' = [wpc EXCEPT ![t] = "acc_swap"]
            /\ wlast' = Other
            /\ UNCHANGED <<wlock, wdeg>>
       ELSE /\ wpc' = [wpc EXCEPT ![t] = "idle"]
            /\ wlock' = NoThread
            /\ wloc' = [wloc EXCEPT ![t] = NoLocals]
            /\ wlast' = Event("accept", c.res, NoInst)
            /\ wdeg' = TRUE
            /\ UNCHANGED <<inst, nextInst>>
    /\ UNCHANGED <<wexists, wcfg, wnb, stored, wsnb>>
    /\ UNCHANGED notWin

\* Mutant of Replace: the new instance is handed out, the slot keeps the old.
Replace_HandOutNew(new) == [slot |-> stored, handedOut |-> new]

\* Mutant of Replace: the stored instance is handed out and stays in the slot.
Replace_KeepSlot(new) == [slot |-> stored, handedOut |-> stored]

\* accept: replace(&mut *stored_instance, new_instance): what the slot holds
\* afterwards and what is handed out.
Replace(new) == [slot |-> new, handedOut |-> stored]

\* accept: the swap, the release of the mutex, the stream handed to the caller.
WAcceptSwap(t) ==
    /\ wpc[t] = "acc_swap"
    /\ LET r == Replace(wloc[t].new) IN
       /\ stored' = r.slot
       /\ inst' = [inst EXCEPT ![r.handedOut].out = @ + 1]
       /\ wlast' = Event("accept", OkRes, r.handedOut)
    /\ wlock' = NoThread
    /\ wloc' = [wloc EXCEPT ![t] = NoLocals]
    /\ wpc' = [wpc EXCEPT ![t] = "idle"]
    /\ UNCHANGED <<wexists, wcfg, wnb, nextInst, wsnb>>
    /\ wdeg' = FALSE
    /\ UNCHANGED notWin

\* PipeListener::set_nonblocking, entry: the call waits for the mutex.
WSetNbCall(t, nonblocking) ==
    /\ wexists
    /\ wpc[t] = "idle"
    /\ wpc' = [wpc EXCEPT ![t] = "snb_lock"]
    /\ wloc' = [wloc EXCEPT ![t] = [nonblocking |-> nonblocking, new |-> NoInst]]
    /\ UNCHANGED <<wexists, wcfg, wnb, wlock, stored, inst, nextInst, wlast, wsnb>>
    /\ UNCHANGED wdeg
    /\ UNCHANGED notWin

\* Mutant of WSetNbAcquire: the flag is stored and the native call made
\* without the mutex.
WSetNbAcquire_NoLock(t) ==
    /\ wpc[t] = "snb_lock"
    /\ wnb' = wloc[t].nonblocking
    /\ wpc' = [wpc EXCEPT ![t] = "snb_native"]
    /\ UNCHANGED <<wexists, wcfg, wlock, stored, inst, nextInst, wloc, wlast, wsnb>>
    /\ UNCHANGED wdeg
    /\ UNCHANGED notWin

\* set_nonblocking: stored_instance.lock() and the store to the flag.
WSetNbAcquire(t) ==
    /\ wpc[t] = "snb_lock"
    /\ wlock = NoThread
    /\ wlock' = t
    /\ wnb' = wloc[t].nonblocking
    /\ wpc' = [wpc EXCEPT ![t] = "snb_native"]
    /\ UNCHANGED <<wexists, wcfg, stored, inst, nextInst, wloc, wlast, wsnb>>
    /\ UNCHANGED wdeg
    /\ UNCHANGED notWin

\* Mutant of WSetNbNative: when the native call fails the function is left
\* with the mutex still held.
WSetNbNative_FailureKeepsLock(t, ok) ==
    /\ wpc[t] = "snb_native"
    /\ LET b == wloc[t].nonblocking IN
       IF ok
       THEN /\ inst' = [inst EXCEPT ![stored].nb = b]
            /\ wlast' = Event("set_nonblocking", OkRes, NoInst)
            /\ wsnb' = IF b THEN "ok_true" ELSE "ok_false"
            /\ wlock' = NoThread
       ELSE /\ wlast' = Event("set_nonblocking", OsErrWin("ERROR_INVALID_PARAMETER"), NoInst)
            /\ wsnb' = "err"
            /\ UNCHANGED <<inst, wlock>>
    /\ wloc' = [wloc EXCEPT ![t] = NoLocals]
    /\ wpc' = [wpc EXCEPT ![t] = "idle"]
    /\ UNCHANGED <<wexists, wcfg, wnb, stored, nextInst>>
    /\ UNCHANGED wdeg
    /\ UNCHANGED notWin

\* set_nonblocking: set_nonblocking_given_readmode(instance, nonblocking)?
\* (SetNamedPipeHandleState, which may refuse), then the release of the mutex.
WSetNbNative(t, ok) ==
    /\ wpc[t] = "snb_native"
    /\ LET b == wloc[t].nonblocking IN
       IF ok
       THEN /\ inst' = [inst EXCEPT ![stored].nb = b]
            /\ wlast' = Event("set_nonblocking", OkRes, NoInst)
            /\ wsnb' = IF b THEN "ok_true" ELSE "ok_false"
       ELSE /\ wlast' = Event("set_nonblocking", OsErrWin("ERROR_INVALID_PARAMETER"), NoInst)
            /\ wsnb' = "err"
            /\ UNCHANGED inst
    /\ wlock' = NoThread
    /\ wloc' = [wloc EXCEPT ![t] = NoLocals]
    /\ wpc' = [wpc EXCEPT ![t] = "idle"]
    /\ UNCHANGED <<wexists, wcfg, wnb, stored, nextInst>>
    /\ UNCHANGED wdeg
    /\ UNCHANGED notWin

\* A client opens the pipe: it gets an instance nobody is connected to, or is
\* refused (ERROR_PIPE_BUSY) when there is none.
WClientConnect ==
    /\ OpenInsts # {}
    /\ IF \E i \in InstIds : inst[i].st = "listening"
       THEN \E i \in InstIds :
               /\ inst[i].st = "listening"
               /\ inst' = [inst EXCEPT ![i].st = "connected"]
               /\ wlast' = Event("client", OkRes, i)
       ELSE /\ wlast' = Event("client", KindErr("Refused"), NoInst)
            /\ UNCHANGED inst
    /\ UNCHANGED <<wexists, wcfg, wnb, wlock, stored, nextInst, wpc, wloc, wsnb>>
    /\ UNCHANGED wdeg
    /\ UNCHANGED notWin

\* A connected client closes its end before any accept has handed it out.
WClientClose(i) ==
    /\ inst[i].st = "connected"
    /\ inst[i].out = 0
    /\ inst' = [inst EXCEPT ![i].st = "gone"]
    /\ wlast' = Other
    /\ UNCHANGED <<wexists, wcfg, wnb, wlock, stored, nextInst, wpc, wloc, wsnb>>
    /\ UNCHANGED wdeg
    /\ UNCHANGED notWin

\* The caller drops a stream that accept returned: its instance is closed.
WStreamDrop(i) ==
    /\ inst[i].out > 0
    /\ inst[i].st \in {"listening", "connected", "gone"}
    /\ inst' = [inst EXCEPT ![i] = [Closed EXCEPT !.out = inst[i].out]]
    /\ wlast' = Other
    /\ UNCHANGED <<wexists, wcfg, wnb, wlock, stored, nextInst, wpc, wloc, wsnb>>
    /\ UNCHANGED wdeg
    /\ UNCHANGED notWin

\* LocalSocketListener::do_not_reclaim_name_on_drop(&mut self) {}: the body
\* is empty; &mut self means no other call on the listener is in progress.
WForget(t) ==
    /\ wexists
    /\ \A u \in Threads : wpc[u] = "idle"
    /\ wlast' = Event("do_not_reclaim_name_on_drop", OkRes, NoInst)
    /\ UNCHANGED <<wexists, wcfg, wnb, wlock, stored, inst, nextInst, wpc, wloc, wsnb>>
    /\ UNCHANGED wdeg
    /\ UNCHANGED notWin

WinNext ==
    \/ \E t \in Threads, nb \in BOOLEAN, limit \in Limits : WCreate(t, nb, limit)
    \/ \E t \in Threads, name \in WinNames : WLocalBind(t, name)
    \/ \E t \in Threads : WAcceptCall(t)
    \/ \E t \in Threads : WAcceptAcquire(t)
    \/ \E t \in Threads : WAcceptWait(t)
    \/ \E t \in Threads : WAcceptWake(t)
    \/ \E t \in Threads : WAcceptCreate(t)
    \/ \E t \in Threads : WAcceptSwap(t)
    \/ \E t \in Threads, b \in BOOLEAN : WSetNbCall(t, b)
    \/ \E t \in Threads : WSetNbAcquire(t)
    \/ \E t \in Threads, ok \in BOOLEAN : WSetNbNative(t, ok)
    \/ WClientConnect
    \/ \E i \in InstIds : WClientClose(i)
    \/ \E i \in InstIds : WStreamDrop(i)

(***************************************************************************)
(* Incoming: the iterator over a borrowed listener                         *)
(***************************************************************************)
\* Option<io::Result<Stream>>: a stream is named by the client at its other end.
NoneItem == [some |-> FALSE, res |-> NoRes, stream |-> 0]
OkStream(c) == [res |-> OkRes, stream |-> c]
ErrStream(e) == [res |-> e, stream |-> 0]

\* Errors accept() fails with while the listener stays as it is.
AcceptFailures == {"EMFILE"}

\* Listener::accept as the iterator sees it: the oldest waiting client, or
\* EAGAIN in nonblocking mode with no client waiting; "block" stands for the
\* call not returning yet.
ListenerAccept ==
    IF ipending # << >> THEN OkStream(Head(ipending))
    ELSE IF inb THEN ErrStream(OsErrUnix("EAGAIN"))
    ELSE [res |-> NoRes, stream |-> 0]

\* Mutant of IncomingNext: the iterator ends at the first error.
IncomingNext_Fused(accepted) ==
    IF accepted.res.kind = "Ok"
    THEN [some |-> TRUE, res |-> accepted.res, stream |-> accepted.stream]
    ELSE NoneItem

\* Mutant of IncomingNext: errors are replaced by WouldBlock.
IncomingNext_Masked(accepted) ==
    IF accepted.res.kind = "Ok"
    THEN [some |-> TRUE, res |-> accepted.res, stream |-> accepted.stream]
    ELSE [some |-> TRUE, res |-> KindErr("WouldBlock"), stream |-> 0]

\* Incoming::next: Some(self.listener.accept())
IncomingNext(accepted) ==
    [some |-> TRUE, res |-> accepted.res, stream |-> accepted.stream]

\* Incoming::size_hint: (usize::MAX, None)
IncomingSizeHint == [lower |-> "usize::MAX", upper |-> "None"]

NoHint == [lower |-> "none", upper |-> "none"]

IncInit ==
    /\ ipending = << >>
    /\ iconn = 0
    /\ inb = FALSE
    /\ ipc = "noiter"
    /\ inexts = 0
    /\ iaccepts = 0
    /\ ilog = << >>
    /\ iitems = << >>
    /\ ihint = NoHint

\* ListenerExt::incoming: self.into(), the iterator borrows the listener.
IncomingNew ==
    /\ ipc = "noiter"
    /\ ipc' = "idle"
    /\ UNCHANGED <<ipending, iconn, inb, inexts, iaccepts, ilog, iitems, ihint>>
    /\ UNCHANGED notInc

\* A client connects to the listener; clients are numbered as they connect.
IncClientConnect ==
    /\ iconn < MaxConn
    /\ iconn' = iconn + 1
    /\ ipending' = Append(ipending, iconn + 1)
    /\ UNCHANGED <<inb, ipc, inexts, iaccepts, ilog, iitems, ihint>>
    /\ UNCHANGED notInc

\* Listener::set_nonblocking on the borrowed listener.
IncSetNonblocking(nonblocking) ==
    /\ ipc # "in_next"
    /\ inb' = nonblocking
    /\ UNCHANGED <<ipending, iconn, ipc, inexts, iaccepts, ilog, iitems, ihint>>
    /\ UNCHANGED notInc

\* Incoming::next, entry: self.listener.accept() is called.
IncomingNextCall ==
    /\ ipc = "idle"
    /\ inexts < MaxNext
    /\ ipc' = "in_next"
    /\ inexts' = inexts + 1
    /\ iaccepts' = iaccepts + 1
    /\ UNCHANGED <<ipending, iconn, inb, ilog, iitems, ihint>>
    /\ UNCHANGED notInc

\* Incoming::next, return: accept() has returned and its result is wrapped.
IncomingNextReturn(accepted) ==
    /\ ipc = "in_next"
    /\ accepted.res.kind # "none"
    /\ ipc' = "idle"
    /\ ipending' = IF accepted.res.kind = "Ok" THEN Tail(ipending) ELSE ipending
    /\ ilog' = Append(ilog, accepted)
    /\ iitems' = Append(iitems, IncomingNext(accepted))
    /\ UNCHANGED <<iconn, inb, inexts, iaccepts, ihint>>
    /\ UNCHANGED notInc

\* Incoming::next returning what the listener's accept gives at this moment.
IncomingNextAccepted == IncomingNextReturn(ListenerAccept)

\* Incoming::next returning an error accept failed with for a cause of its own.
IncomingNextFailed == \E e \in AcceptFailures : IncomingNextReturn(ErrStream(OsErrUnix(e)))

\* Incoming::size_hint
IncomingSizeHintCall ==
    /\ ipc = "idle"
    /\ ihint' = IncomingSizeHint
    /\ UNCHANGED <<ipending, iconn, inb, ipc, inexts, iaccepts, ilog, iitems>>
    /\ UNCHANGED notInc

IncNext ==
    \/ IncomingNew
    \/ IncClientConnect
    \/ \E b \in BOOLEAN : IncSetNonblocking(b)
    \/ IncomingNextCall
    \/ IncomingNextAccepted
    \/ IncomingNextFailed
    \/ IncomingSizeHintCall

(***************************************************************************)
(* Listener::decode_listen_error over the errors a bind can fail with      *)
(***************************************************************************)
\* Error codes bind(2) and listen(2) fail with, and the code for an existing
\* file.
BindErrnos ==
    {"EACCES", "EPERM", "EADDRINUSE", "EADDRNOTAVAIL", "EBADF", "EEXIST", "EFAULT",
     "EINVAL", "ELOOP", "ENAMETOOLONG", "ENOENT", "ENOMEM", "ENOTDIR", "ENOTSOCK",
     "EOPNOTSUPP", "EROFS"}

\* The io::Errors UnixListener::bind_addr can return: an OS error, or an
\* error that carries a kind only.
BindErrors ==
    {OsErrUnix(e) : e \in BindErrnos}
        \cup {KindErr(k) : k \in {"AlreadyExists", "InvalidInput", "Other"}}

DecInit ==
    /\ derr = NoRes
    /\ din = NoRes
    /\ dres = NoRes

\* UnixListener::bind_addr(..) returns Err(e).
DecodeBindFails(e) ==
    /\ derr' = e
    /\ UNCHANGED <<din, dres>>
    /\ UNCHANGED notDec

\* .map_err(Self::decode_listen_error) on that error.
DecodeMapErr ==
    /\ derr # NoRes
    /\ din' = derr
    /\ dres' = decode_listen_error(derr)
    /\ UNCHANGED derr
    /\ UNCHANGED notDec

DecNext ==
    \/ \E e \in BindErrors : DecodeBindFails(e)
    \/ DecodeMapErr

(***************************************************************************)
(* The concurrency detector (local_socket/concurrency_detector)            *)
(***************************************************************************)
\* The instances whose operations are not safe to run concurrently and are
\* guarded by a detector each.
Guarded == {"listener", "stream"}
NoGuarded == "none"

NoCdCall == [thread |-> NoThread, on |-> NoGuarded, admitted |-> FALSE]

\* Mutant of DetectorLock: the flag is set without being looked at.
DetectorLock_NoCheck(flag) == [admitted |-> TRUE, flag |-> TRUE]

\* The detector's lock: one atomic exchange of the flag; the caller is
\* admitted if the flag was clear and rejected if it was set.
DetectorLock(flag) == [admitted |-> ~flag, flag |-> TRUE]

CdInit ==
    /\ cdflag = [o \in Guarded |-> FALSE]
    /\ cdpc = [t \in Threads |-> "idle"]
    /\ cdon = [t \in Threads |-> NoGuarded]
    /\ cdcalls = 0
    /\ cdlast = NoCdCall

\* A thread calls a guarded operation of an instance: it takes the detector's
\* lock and goes on into the native operation, or is rejected at once.
CdCall(t, o) ==
    /\ cdpc[t] = "idle"
    /\ cdcalls < MaxCalls
    /\ cdcalls' = cdcalls + 1
    /\ LET r == DetectorLock(cdflag[o]) IN
       /\ cdflag' = [cdflag EXCEPT ![o] = r.flag]
       /\ cdlast' = [thread |-> t, on |-> o, admitted |-> r.admitted]
       /\ IF r.admitted
          THEN /\ cdpc' = [cdpc EXCEPT ![t] = "native"]
               /\ cdon' = [cdon EXCEPT ![t] = o]
          ELSE UNCHANGED <<cdpc, cdon>>
    /\ UNCHANGED notCd

\* The native operation returns and the detector's guard is dropped.
CdReturn(t) ==
    /\ cdpc[t] = "native"
    /\ cdpc' = [cdpc EXCEPT ![t] = "idle"]
    /\ cdon' = [cdon EXCEPT ![t] = NoGuarded]
    /\ cdflag' = [cdflag EXCEPT ![cdon[t]] = FALSE]
    /\ UNCHANGED <<cdcalls, cdlast>>
    /\ UNCHANGED notCd

CdNext ==
    \/ \E t \in Threads, o \in Guarded : CdCall(t, o)
    \/ \E t \in Threads : CdReturn(t)

Init == UnixInit /\ WinInit /\ IncInit /\ DecInit /\ CdInit

SpecGuard == Init /\ [][CdNext]_vars

SpecDecode == Init /\ [][DecNext]_vars

SpecUnix == Init /\ [][UnixNext]_vars
SpecWin == Init /\ [][WinNext]_vars
SpecInc == Init /\ [][IncNext]_vars

\* The calls that decide what a drop leaves behind, on both listeners: the
\* Unix listener whole, the Windows local-socket listener bound and told not
\* to reclaim its name.
ReclaimNext ==
    \/ UnixNext
    \/ \E t \in Threads, name \in WinNames : WLocalBind(t, name)
    \/ \E t \in Threads : WForget(t)

SpecReclaim == Init /\ [][ReclaimNext]_vars

\* The Unix listener in a filesystem where a socket file can be removed from
\* outside and its deletion can be refused.
DropNext ==
    \/ UnixNext
    \/ \E t \in Threads : UDropReclaimDenied(t)
    \/ \E name \in Names : UExternalUnlink(name)

SpecDrop == Init /\ [][DropNext]_vars

\* The Windows listener built from options of the caller's choice: accepts,
\* mode changes, clients that come and go, dropped streams.
OptsNext ==
    \/ \E t \in Threads, opts \in CallerOptions : WCreateWith(t, opts)
    \/ \E t \in Threads : WAcceptCall(t)
    \/ \E t \in Threads : WAcceptAcquire(t)
    \/ \E t \in Threads : WAcceptWait(t)
    \/ \E t \in Threads : WAcceptWake(t)
    \/ \E t \in Threads : WAcceptCreate(t)
    \/ \E t \in Threads : WAcceptSwap(t)
    \/ \E t \in Threads, b \in BOOLEAN : WSetNbCall(t, b)
    \/ \E t \in Threads : WSetNbAcquire(t)
    \/ \E t \in Threads, ok \in BOOLEAN : WSetNbNative(t, ok)
    \/ WClientConnect
    \/ \E i \in InstIds : WClientClose(i)
    \/ \E i \in InstIds : WStreamDrop(i)

SpecOpts == Init /\ [][OptsNext]_vars

\* Options of a listener that is created nonblocking and may have two
\* instances at a time.
LockOptions ==
    { [DefaultOptions EXCEPT !.path = BindPath(NsA), !.nonblocking = TRUE,
                             !.instance_limit = 2] }

\* The steps a thread takes inside accept or set_nonblocking once it has the
\* mutex; a blocked wait goes on when a client has connected.
InCall(t) ==
    \/ WAcceptWait(t)
    \/ WAcceptWake(t)
    \/ WAcceptCreate(t)
    \/ WAcceptSwap(t)
    \/ \E ok \in BOOLEAN : WSetNbNative(t, ok)

\* Accepts and set_nonblocking calls of two threads on one listener, every
\* exit path of both reachable, with each thread going on inside its call.
LockNext ==
    \/ \E t \in Threads, opts \in LockOptions : WCreateWith(t, opts)
    \/ \E t \in Threads : WAcceptCall(t)
    \/ \E t \in Threads : WAcceptAcquire(t)
    \/ \E t \in Threads : WAcceptWait(t)
    \/ \E t \in Threads : WAcceptWake(t)
    \/ \E t \in Threads : WAcceptCreate(t)
    \/ \E t \in Threads : WAcceptSwap(t)
    \/ \E t \in Threads, b \in BOOLEAN : WSetNbCall(t, b)
    \/ \E t \in Threads : WSetNbAcquire(t)
    \/ \E t \in Threads, ok \in BOOLEAN : WSetNbNative(t, ok)
    \/ WClientConnect
    \/ \E i \in InstIds : WClientClose(i)
    \/ \E i \in InstIds : WStreamDrop(i)

SpecLock == Init /\ [][LockNext]_vars /\ \A t \in Threads : WF_vars(InCall(t))

\* LocalSocketListener::bind on names of every shape, and the accepts of the
\* listener it gives.
BindNext ==
    \/ \E t \in Threads, name \in BindNames : WLocalBind(t, name)
    \/ \E t \in Threads : WAcceptCall(t)
    \/ \E t \in Threads : WAcceptAcquire(t)
    \/ \E t \in Threads : WAcceptWait(t)
    \/ \E t \in Threads : WAcceptWake(t)
    \/ \E t \in Threads : WAcceptCreate(t)
    \/ \E t \in Threads : WAcceptSwap(t)
    \/ WClientConnect
    \/ \E i \in InstIds : WStreamDrop(i)

SpecBind == Init /\ [][BindNext]_vars

(***************************************************************************)
(* Properties                                                              *)
(***************************************************************************)
\* A name is free for a new bind according to the calls made so far: never
\* bound, or its last listener dropped in a way that released it.
FreeHist(name, h) ==
    \/ h = "fresh"
    \/ name.kind = "ns" /\ h \in {"dropped_bind", "dropped_bind_accepted",
                                  "dropped_without", "dropped_forgot"}
    \/ name.kind = "path" /\ h \in {"dropped_bind", "dropped_bind_accepted"}

BindDone(t) == ures[t].res.kind # "none"

\* C1: For every valid name that is not currently bound, bind(name) succeeds,
\* and a second bind(name) while the first listener is alive fails with
\* AddrInUse, on the Unix listener and on the Windows named-pipe listener.
\* Stated here for LocalSocketListener::bind on Windows: a bind that does not
\* succeed reports AddrInUse.
C1_WinSecondBindAddrInUse ==
    (wlast.ev = "bind" /\ to_local_socket_name(wlast.name).ok)
    => wlast.res.kind \in {"Ok", "AddrInUse"}

C3_ReclaimedNameRebinds ==
    /\ \A n \in Names :
          n.kind = "path" /\ nhist[n] \in {"dropped_bind", "dropped_bind_accepted"}
          => n.text \notin sockfile
    /\ \A t \in Threads :
          ( /\ BindDone(t)
            /\ ures[t].name.kind = "path"
            /\ ures[t].prior \in {"dropped_bind", "dropped_bind_accepted"} )
          => ures[t].res.kind = "Ok"

C3_Witness ==
    \E t \in Threads :
        /\ ures[t].name = PathA
        /\ ures[t].prior = "dropped_bind_accepted"
        /\ ures[t].res.kind = "Ok"

\* C4: On Unix, for a path-kind name, after bind_without_name_reclamation(name)
\* and the drop of that listener the socket file is still there, and a bind of
\* the same name fails with AddrInUse, whether or not a client ever connected.
C4_KeptNameStaysInUse ==
    /\ \A n \in Names :
          n.kind = "path" /\ nhist[n] = "dropped_without" => n.text \in sockfile
    /\ \A t \in Threads :
          ( /\ BindDone(t)
            /\ ures[t].name.kind = "path"
            /\ ures[t].prior = "dropped_without" )
          => ures[t].res.kind = "AddrInUse"

C4_Witness ==
    \E t \in Threads :
        /\ ures[t].name = PathA
        /\ ures[t].prior = "dropped_without"
        /\ ures[t].res.kind = "AddrInUse"

AcceptOkReturned == wlast.ev = "accept" /\ wlast.res.kind = "Ok"

\* C5 (as claimed): on the Windows listener a client that attempts to connect
\* right after an accept has returned finds an unconnected instance and
\* connects.
C5_ClientAfterAcceptConnects ==
    [][ (AcceptOkReturned /\ wlast'.ev = "client") => wlast'.res.kind = "Ok" ]_vars

\* C5 (amended): when a successful accept has returned, the slot holds an
\* instance other than the one returned; a client that attempts to connect
\* right after connects to it if no other client has connected to it since it
\* was created, and is refused otherwise.
C5_ClientAfterAcceptUnlessTaken ==
    [][ (AcceptOkReturned /\ wlast'.ev = "client")
        => /\ stored # wlast.inst
           /\ IF inst[stored].st = "listening"
              THEN wlast'.res.kind = "Ok" /\ wlast'.inst = stored
              ELSE wlast'.res.kind = "Refused" ]_vars

C5_Witness ==
    /\ AcceptOkReturned
    /\ inst[wlast.inst].out = 1
    /\ inst[stored].st = "listening"
    /\ stored # wlast.inst

NoAcceptInProgress == \A t \in Threads : wpc[t] \notin {"acc_lock", "acc_wait", "acc_blocked",
                                                        "acc_create", "acc_swap"}

C7_NonblockingAcceptWouldBlock ==
    [][ \A t \in Threads :
          (wpc[t] = "acc_wait" /\ wpc'[t] # "acc_wait" /\ inst[stored].st = "listening")
          => /\ wsnb = "ok_true" =>
                  /\ wpc'[t] = "idle"
                  /\ wlast'.ev = "accept" /\ wlast'.res.kind = "WouldBlock"
             /\ wsnb = "ok_false" => wpc'[t] = "acc_blocked" ]_vars

\* C8: on the Windows listener in nonblocking mode an accept that finds no
\* client returns an error of kind WouldBlock made for the purpose: the
\* native "still listening" code is not returned raw.
C8_ListeningMappedToWouldBlock ==
    [][ \A t \in Threads :
          ( /\ wpc[t] = "acc_wait" /\ wpc'[t] # "acc_wait"
            /\ ConnectNamedPipe(stored) = "ERROR_PIPE_LISTENING" )
          => wlast'.ev = "accept" /\ wlast'.res = KindErr("WouldBlock") ]_vars

\* C9: an accept on a shared Windows listener sees a set_nonblocking entirely
\* or not at all: the flag it loaded and the mode of the instance it waits on
\* are both the old or both the new value.
C9_AcceptSeesWholeChange ==
    \A t \in Threads :
        wpc[t] \in {"acc_wait", "acc_blocked"} => wloc[t].nonblocking = inst[stored].nb

\* C10: whenever the slot lock is free, the nonblocking flag equals the mode
\* of the instance in the slot, from construction on and after every
\* set_nonblocking, returned Ok or not.
C10_FlagEqualsStoredMode ==
    (wexists /\ wlock = NoThread) => wnb = inst[stored].nb

\* The last set_nonblocking to complete returned Ok and no other is at work.
LastSetNbOk ==
    /\ wsnb \in {"ok_true", "ok_false"}
    /\ \A t \in Threads : wpc[t] # "snb_native"

\* C11: on Windows, once set_nonblocking(b) has returned Ok and until the next
\* set_nonblocking, the stored instance, every instance accept creates and
\* every stream accept returns have nonblocking mode b, whatever the
\* nonblocking value of the creation options.
C11_ModeFollowsSetNonblocking ==
    LastSetNbOk =>
        LET b == (wsnb = "ok_true") IN
        /\ inst[stored].nb = b
        /\ \A t \in Threads :
              wloc[t].new # NoInst => inst[wloc[t].new].nb = b
        /\ AcceptOkReturned => inst[wlast.inst].nb = b

C11_Witness ==
    /\ LastSetNbOk
    /\ wsnb = "ok_true"
    /\ ~wcfg.nonblocking
    /\ AcceptOkReturned
    /\ inst[wlast.inst].nb
    /\ stored # wlast.inst /\ inst[stored].nb

RECURSIVE OkStreams(_)
\* The streams of the Ok entries of a sequence of results, in order.
OkStreams(seq) ==
    IF seq = << >> THEN << >>
    ELSE IF Head(seq).res.kind = "Ok"
         THEN <<Head(seq).stream>> \o OkStreams(Tail(seq))
         ELSE OkStreams(Tail(seq))

\* C12: every call of next() makes exactly one accept() on the borrowed
\* listener and yields that call's result; the Ok items are the accepted
\* connections in the order they were accepted, and once all N clients that
\* connected have been accepted there are exactly N of them.
C12_IncomingYieldsEachAccept ==
    /\ iaccepts = inexts
    /\ Len(iitems) = Len(ilog)
    /\ Len(ilog) = IF ipc = "in_next" THEN iaccepts - 1 ELSE iaccepts
    /\ \A k \in 1..Len(iitems) :
          /\ iitems[k].some
          /\ iitems[k].res = ilog[k].res
          /\ iitems[k].stream = ilog[k].stream
    /\ OkStreams(iitems) = [k \in 1..(iconn - Len(ipending)) |-> k]
    /\ ipending = << >> => Len(OkStreams(iitems)) = iconn

C12_Witness ==
    /\ iconn = MaxConn
    /\ ipending = << >>
    /\ Len(iitems) = MaxNext
    /\ OkStreams(iitems) = [k \in 1..MaxConn |-> k]
    /\ \E k \in 1..Len(iitems) : iitems[k].res.raw = "EMFILE"

\* C13: Incoming never signals the end of the sequence: every call of next()
\* that has returned returned Some(..), also after an earlier call yielded an
\* Err, and size_hint reports no upper bound.
C13_IncomingNeverEnds ==
    /\ Len(iitems) = IF ipc = "in_next" THEN inexts - 1 ELSE inexts
    /\ \A k \in 1..Len(iitems) : iitems[k].some
    /\ ihint # NoHint => ihint.upper = "None"

C13_Witness ==
    /\ ihint # NoHint
    /\ \E k \in 1..Len(iitems) : \E j \in 1..Len(iitems) :
          /\ k < j
          /\ iitems[k].res.kind \notin {"Ok", "none"}
          /\ iitems[j].some /\ iitems[j].res.kind = "Ok"

\* The outcome of a bind of a name, given what the calls made before did with
\* the name; whether the name is to be reclaimed is not an argument.
ExpectedBindKind(name, prior) ==
    IF name.text \in Unaddressable THEN "InvalidInput"
    ELSE IF name.kind = "path"
         THEN IF prior \in {"fresh", "dropped_bind", "dropped_bind_accepted"}
              THEN "Ok" ELSE "AddrInUse"
         ELSE IF prior = "live" THEN "AddrInUse" ELSE "Ok"

\* The listener was made by bind_without_name_reclamation, or by bind and then
\* do_not_reclaim_name_on_drop.
MadeWithout(l) == l.how = "bind_without" \/ (l.how = "bind" /\ l.forgot)

\* C14: bind_without_name_reclamation(name) and bind(name) followed by
\* do_not_reclaim_name_on_drop() are equivalent: the outcome of the bind does
\* not depend on which of the two is called, the listeners they give hold the
\* same (empty) guard, and after any accept / set_nonblocking / drop the
\* socket file is in the same state (still present).
C14_WithoutEqualsBindThenForget ==
    /\ \A t \in Threads :
          BindDone(t) => ures[t].res.kind = ExpectedBindKind(ures[t].name, ures[t].prior)
    /\ \A t \in Threads :
          (upc[t] \in {"bound", "accepting", "dropping"} /\ MadeWithout(ul[t]))
          => /\ ul[t].reclaim = BindGuard(ul[t].name, FALSE)
             /\ Occupied(ul[t].name) \/ (ul[t].name.kind = "ns" /\ upc[t] = "dropping")
    /\ \A n \in Names :
          (n.kind = "path" /\ nhist[n] \in {"dropped_without", "dropped_forgot"})
          => n.text \in sockfile

C14_Witness ==
    \E t \in Threads :
        /\ ures[t].name = PathA
        /\ ures[t].prior = "dropped_forgot"
        /\ ures[t].res.kind = "AddrInUse"
        /\ PathA.text \in sockfile

\* C15: do_not_reclaim_name_on_drop() called on a bound Unix listener at any
\* point before its drop makes the drop leave the socket file where it is; on
\* the Windows listener the call changes nothing of the listener.
C15_ForgetKeepsFile ==
    [][ /\ \A t \in Threads :
              (upc[t] = "dropping" /\ upc'[t] = "idle" /\ ul[t].how = "bind" /\ ul[t].forgot)
              => /\ sockfile' = sockfile
                 /\ ul[t].name.kind = "path" => ul[t].name.text \in sockfile'
        /\ (wlast'.ev = "do_not_reclaim_name_on_drop" /\ wlast.ev # wlast'.ev)
              => UNCHANGED <<wexists, wcfg, wnb, wlock, stored, inst, nextInst>> ]_vars

C15_Witness ==
    /\ nhist[PathA] = "dropped_forgot"
    /\ PathA.text \in sockfile
    /\ \A t \in Threads : upc[t] = "idle"
    /\ wexists /\ wlast.ev = "do_not_reclaim_name_on_drop"

\* A further instance of the pipe can be created now.
CanCreateInstance == CreateNamedPipe(wcfg.path, FALSE, wcfg.instance_limit).kind = "Ok"

\* C16: when the creation of the replacement instance fails during a Windows
\* accept, that accept returns the error and hands out no stream, the listener
\* stays as it was, and an accept retried when an instance can be created
\* again does not fail.
C16_RetryAfterFailedRecycleSucceeds ==
    [][ \A t \in Threads :
          /\ (wpc[t] = "acc_create" /\ wpc'[t] = "idle")
             => /\ wlast'.ev = "accept" /\ wlast'.res.kind \notin {"Ok", "none"}
                /\ wlast'.inst = NoInst
                /\ wexists' /\ stored' = stored /\ inst' = inst /\ wlock' = NoThread
          /\ (wdeg /\ CanCreateInstance /\ wpc[t] \in {"acc_wait", "acc_create"})
             => wpc'[t] # "idle" ]_vars

\* C16, with the client kept: the retried accept does not fail as long as the
\* client that connected to the instance in the slot has not gone away.
C16_RetrySucceedsWhileClientStays ==
    [][ \A t \in Threads :
          ( /\ wdeg /\ CanCreateInstance
            /\ inst[stored].st = "connected"
            /\ wpc[t] \in {"acc_wait", "acc_create"} )
          => wpc'[t] # "idle" ]_vars

C18_DecodeListenError ==
    din # NoRes =>
        IF din.kind = "AlreadyExists"
        THEN dres.kind = "AddrInUse"
        ELSE dres = din /\ dres.kind = din.kind /\ dres.raw = din.raw

C18_Witness ==
    /\ din = OsErrUnix("EEXIST")
    /\ dres.kind = "AddrInUse"
    /\ derr = OsErrUnix("EACCES")

\* The deletion the drop of t's listener attempts fails in this step: the
\* file is already gone, or it is still there afterwards.
DeletionFails(t) ==
    /\ upc[t] = "dropping" /\ upc'[t] # "dropping"
    /\ ul[t].reclaim.kind = "path"
    /\ ul[t].reclaim.text \notin sockfile \/ ul[t].reclaim.text \in sockfile'

\* C19: the drop of a Unix listener whose socket file cannot be deleted
\* (already removed, permission denied) completes like any other: nothing is
\* returned or raised, the files are left as they are, the listener is gone.
C19_DropSwallowsDeletionFailure ==
    [][ \A t \in Threads :
          DeletionFails(t)
          => /\ upc'[t] = "idle"
             /\ ul'[t] = NoListener
             /\ ures'[t] = ures[t] /\ uacc'[t] = uacc[t]
             /\ sockfile' = sockfile ]_vars

C19_Witness ==
    /\ nhist[PathA] = "dropped_undeleted"
    /\ PathA.text \in sockfile
    /\ \A t \in Threads : upc[t] = "idle" /\ ul[t] = NoListener

\* The step in which the drop of t's listener releases its guard.
GuardReleased(t) == upc[t] = "dropping" /\ upc'[t] = "idle"

\* C20: a Unix listener bound with reclamation has the deletion of its socket
\* file attempted exactly once, by its drop, if it was neither forgotten nor
\* converted, and never otherwise; no file is deleted by any other step, and
\* with the drop the guard is gone, so that nothing is attempted twice.
C20_DeletionAttemptedOnce ==
    [][ /\ \A t \in Threads :
              GuardReleased(t)
              => /\ (ul[t].reclaim.kind = "path")
                      <=> (ul[t].how = "bind" /\ ~ul[t].forgot /\ ul[t].name.kind = "path")
                 /\ ul[t].reclaim.kind = "path" => ul[t].reclaim = ul[t].name
                 /\ ul'[t] = NoListener
        /\ \A t \in Threads :
              (upc[t] = "raw" /\ upc'[t] # "raw")
              => ul[t].reclaim = NoName /\ ul'[t].reclaim = NoName /\ sockfile' = sockfile
        /\ ~(sockfile \subseteq sockfile')
              => \E t \in Threads :
                    /\ GuardReleased(t)
                    /\ sockfile \ sockfile' = {ul[t].reclaim.text} ]_vars

C20_Witness ==
    /\ nhist[PathA] = "dropped_bind_accepted"
    /\ PathA.text \notin sockfile
    /\ \A t \in Threads : upc[t] = "idle" /\ ul[t] = NoListener

\* The guard of t's listener is empty, or holds the one name the listener was
\* bound to by its own bind with reclamation, a filesystem path whose socket
\* file that bind created.
GuardHoldsOwnPath(l, pc, files) ==
    \/ l.reclaim = NoName
    \/ /\ l.reclaim \in Names /\ l.reclaim.kind = "path"
       /\ l.reclaim = l.name
       /\ l.how = "bind" /\ ~l.forgot
       /\ pc \in {"bound", "accepting", "dropping"}
       /\ l.reclaim.text \in files

\* C21: the reclaim guard of a Unix listener holds at most one name, and only
\* a filesystem-path name that the listener's own successful bind created; a
\* listener bound to a namespaced name, also with reclamation asked for, holds
\* no name and its drop deletes no file.
C21_GuardOnlyOwnPath ==
    [][ /\ \A t \in Threads : GuardHoldsOwnPath(ul'[t], upc'[t], sockfile')
        /\ \A t \in Threads :
              (upc'[t] \in {"bound", "accepting", "dropping"} /\ ul'[t].name.kind = "ns")
              => ul'[t].reclaim = NoName
        /\ \A t \in Threads :
              (GuardReleased(t) /\ ul[t].name.kind = "ns") => sockfile' = sockfile ]_vars

C21_Witness ==
    /\ nhist[NsA] = "dropped_bind"
    /\ NsA.text \notin absbound
    /\ sockfile = {PathA.text}
    /\ \E t \in Threads : ul[t].reclaim = PathA /\ upc[t] = "bound"

\* C22: the creation options a Windows PipeListener stores are never changed
\* by accept or set_nonblocking, and every instance of the listener, the first
\* one and every one an accept creates, is created with the same path,
\* instance limit, buffer-size hints, remote-access and write-through
\* settings: those of the stored options.
C22_OptionsFixedAndUsedForEveryInstance ==
    [][ /\ wexists => wcfg' = wcfg
        /\ \A i \in InstIds :
              inst'[i].st \in {"listening", "connected", "gone"}
              => inst'[i].made = CreateParams(wcfg')
        /\ \A i \in InstIds :
              (inst[i].st = "none" /\ inst'[i].st # "none")
              => /\ inst'[i].made = CreateParams(wcfg')
                 /\ \A j \in InstIds :
                       inst[j].st \in {"listening", "connected", "gone"}
                       => inst'[i].made = inst[j].made ]_vars

C22_Witness ==
    /\ wcfg.write_through /\ wcfg.accept_remote
    /\ wsnb = "ok_true"
    /\ AcceptOkReturned
    /\ stored # wlast.inst
    /\ inst[wlast.inst].made = CreateParams(wcfg)
    /\ inst[stored].made = CreateParams(wcfg)
    /\ inst[stored].made.output_buffer_size_hint = 4096

\* Streams accept has returned that the caller still holds.
StreamsOpen ==
    Cardinality({i \in InstIds : inst[i].out > 0 /\ inst[i].st \in {"listening", "connected", "gone"}})

\* C23: a Windows PipeListener created with instance_limit = N serves N
\* clients at once: an accept that has found its client while fewer than N
\* streams returned earlier are open returns a stream.
C23_LimitClientsAtOnce ==
    [][ \A t \in Threads :
          ( /\ wpc[t] = "acc_create" /\ wpc'[t] # "acc_create"
            /\ wcfg.instance_limit # NoLimit
            /\ StreamsOpen < wcfg.instance_limit )
          => wpc'[t] = "acc_swap" ]_vars

\* C24: on Windows bind turns a namespaced name N into the path made of the
\* pipe namespace prefix followed by N before any instance is created: the
\* path handed to the creation of the pipe lies in the pipe namespace.
C24_NamespacedNameUnderPipePrefix ==
    (wlast.ev = "bind" /\ wlast.name.kind = "ns" /\ wlast.path # "")
    => /\ InPipeNamespace(wlast.path)
       /\ wlast.path = PipePrefix \o wlast.name.text

\* Threads inside the native operation of a guarded instance.
InNative(o) == {t \in Threads : cdpc[t] = "native" /\ cdon[t] = o}
\* The same after the step.
InNativeAfter(o) == {t \in Threads : cdpc'[t] = "native" /\ cdon'[t] = o}

\* C25: calls from several threads into an operation of one instance that is
\* not safe to run concurrently are detected and rejected at once: no two
\* threads are inside the native operation of one instance together, and a
\* call made while another thread is inside is rejected by that very call.
C25_ConcurrentCallsRejected ==
    [][ /\ \A o \in Guarded : Cardinality(InNativeAfter(o)) <= 1
        /\ cdcalls' # cdcalls
              => /\ cdlast'.admitted <=> InNative(cdlast'.on) = {}
                 /\ cdlast'.admitted => InNativeAfter(cdlast'.on) = {cdlast'.thread}
                 /\ ~cdlast'.admitted
                       => cdpc'[cdlast'.thread] = "idle" /\ cdpc' = cdpc ]_vars

C25_Witness ==
    /\ ~cdlast.admitted /\ cdlast.thread # NoThread
    /\ \E u \in Threads \ {cdlast.thread} : InNative(cdlast.on) = {u}
    /\ \E o \in Guarded : InNative(o) = {}

\* C26: in a Windows accept, when the native wait reports that the client had
\* already connected to the stored instance (ERROR_PIPE_CONNECTED), the accept
\* goes on exactly as after a wait that succeeded: with the lock held and
\* nothing else changed it creates the replacement, and the stream it returns
\* wraps the instance that client connected to.
C26_ConnectedBeforeWaitIsSuccess ==
    [][ \A t \in Threads :
          /\ ( /\ wpc[t] = "acc_wait" /\ wpc'[t] # "acc_wait"
               /\ ConnectNamedPipe(stored) = "ERROR_PIPE_CONNECTED" )
             => /\ wpc'[t] = "acc_create"
                /\ UNCHANGED <<wlock, stored, inst, wloc, wlast, wnb, wcfg>>
          /\ (wpc[t] = "acc_blocked" /\ wpc'[t] # "acc_blocked")
             => /\ wpc'[t] = "acc_create"
                /\ UNCHANGED <<wlock, stored, inst, wloc, wlast, wnb, wcfg>>
          /\ (wpc[t] = "acc_create" /\ wpc'[t] # "acc_create" /\ CanCreateInstance)
             => wpc'[t] = "acc_swap"
          /\ (wpc[t] = "acc_swap" /\ wpc'[t] # "acc_swap")
             => /\ wlast' = Event("accept", OkRes, stored)
                /\ inst[stored].st \in {"connected", "gone"} ]_vars

\* A stream has been returned for an instance that was nonblocking from its
\* creation: its wait cannot have blocked, the client was there before it.
C26_Witness ==
    /\ AcceptOkReturned
    /\ wsnb = "none" /\ wcfg.nonblocking
    /\ inst[wlast.inst].nb /\ inst[wlast.inst].st = "connected"
    /\ inst[wlast.inst].out = 1

\* Positions of accept at which the slot lock is held.
AcceptLocked == {"acc_wait", "acc_blocked", "acc_create", "acc_swap"}

\* C27: every successful Windows accept waits for a client on the instance in
\* the slot, then creates a new instance, then swaps it into the slot, in this
\* order and with the slot lock held from before the wait until after the
\* swap; the stream it returns wraps the instance the client connected to and
\* the slot then holds the newly created one.
C27_WaitCreateSwapUnderLock ==
    [][ /\ \A t \in Threads :
              /\ wpc'[t] \in AcceptLocked => wlock' = t
              /\ (wpc'[t] = "acc_wait" /\ wpc[t] # "acc_wait")
                    => wpc[t] = "acc_lock" /\ wlock = NoThread
              /\ (wpc'[t] = "acc_create" /\ wpc[t] # "acc_create")
                    => /\ wpc[t] \in {"acc_wait", "acc_blocked"}
                       /\ inst[stored].st \in {"connected", "gone"}
                       /\ stored' = stored
              /\ (wpc'[t] = "acc_swap" /\ wpc[t] # "acc_swap")
                    => /\ wpc[t] = "acc_create"
                       /\ inst[wloc'[t].new].st = "none"
                       /\ inst'[wloc'[t].new].st = "listening"
                       /\ stored' = stored
              /\ (wpc[t] = "acc_swap" /\ wpc'[t] # "acc_swap")
                    => /\ wpc'[t] = "idle"
                       /\ wlock = t /\ wlock' = NoThread
                       /\ wlast' = Event("accept", OkRes, stored)
                       /\ inst[stored].st \in {"connected", "gone"}
                       /\ stored' = wloc[t].new /\ stored' # stored
        /\ (wlast' # wlast /\ wlast'.ev = "accept" /\ wlast'.res.kind = "Ok")
              => \E t \in Threads : wpc[t] = "acc_swap" /\ wpc'[t] = "idle" ]_vars

C27_Witness ==
    /\ AcceptOkReturned
    /\ wlock = NoThread
    /\ wsnb = "none" /\ ~wcfg.nonblocking
    /\ inst[wlast.inst].st = "connected" /\ inst[wlast.inst].out = 1
    /\ stored # wlast.inst /\ inst[stored].st = "listening" /\ inst[stored].out = 0
    /\ \A t \in Threads : wpc[t] = "idle"

\* C28: on a Windows PipeListener in blocking mode, a set_nonblocking called
\* by another thread while an accept is blocked in its wait for a client does
\* not get past the lock and does not complete before that accept has
\* returned: the flag and the mode of the stored instance stay as they are,
\* and the accept leaves its wait only when a client has connected.
C28_SetNonblockingCannotStopBlockedAccept ==
    [][ \A t \in Threads :
          /\ wpc[t] \in AcceptLocked
             => /\ wlock = t
                /\ \A u \in Threads \ {t} :
                      /\ wpc[u] # "snb_native" /\ wpc'[u] # "snb_native"
                      /\ wpc[u] = "snb_lock" => wpc'[u] = "snb_lock"
                /\ wnb' = wnb /\ wsnb' = wsnb
                /\ wlast'.ev # "set_nonblocking" \/ wlast' = wlast
          /\ wpc[t] = "acc_blocked"
             => /\ ~inst[stored].nb
                /\ stored' = stored /\ inst'[stored].nb = inst[stored].nb
                /\ wpc'[t] # "acc_blocked"
                      => wpc'[t] = "acc_create" /\ inst[stored].st \in {"connected", "gone"} ]_vars

C28_Witness ==
    \E t \in Threads, u \in Threads :
        /\ wpc[t] = "acc_blocked"
        /\ wpc[u] = "snb_lock" /\ wloc[u].nonblocking
        /\ inst[stored].st = "listening" /\ ~wnb

\* The step in which t's listener is converted into its UnixListener / OwnedFd.
Converted(t) == upc[t] = "bound" /\ upc'[t] = "raw"

\* The step in which the converted value of t is dropped.
ConvertedDropped(t) == upc[t] = "raw" /\ upc'[t] = "idle"

\* C29: converting a Unix listener into a UnixListener or an OwnedFd forgets
\* the guard: the conversion deletes no file and leaves the descriptor open
\* and the name occupied, the converted value carries no guard, and its later
\* drop closes the descriptor and deletes no file, so that the socket file of
\* a path name outlives both.
C29_ConversionForgetsGuard ==
    [][ \A t \in Threads :
          /\ Converted(t)
             => /\ sockfile' = sockfile /\ absbound' = absbound
                /\ ul'[t].reclaim = NoName
                /\ ul'[t].fdOpen = ul[t].fdOpen /\ ul'[t].name = ul[t].name
          /\ upc[t] = "raw" => ul[t].reclaim = NoName
          /\ ConvertedDropped(t)
             => /\ sockfile' = sockfile
                /\ ul'[t] = NoListener
                /\ nhist'[ul[t].name] = "dropped_forgot" ]_vars

C29_Witness ==
    \E t \in Threads :
        /\ upc[t] = "raw"
        /\ ul[t].how = "bind" /\ ul[t].name = PathA /\ ul[t].fdOpen
        /\ ul[t].reclaim = NoName
        /\ PathA.text \in sockfile

\* The positions of a thread at which it has a listener, or the value the
\* listener was converted into.
ListenerLive == {"bound", "accepting", "raw"}

\* C30: the reclamation state of a Unix listener only moves from enabled to
\* disabled: once the guard is empty it stays empty for the rest of the
\* listener's life, a guard that changes becomes empty and does so by
\* do_not_reclaim_name_on_drop or by a conversion, and accept and
\* set_nonblocking leave it as it is.
C30_ReclaimOnlyDisabled ==
    [][ \A t \in Threads :
          /\ (upc[t] \in ListenerLive /\ upc'[t] \in ListenerLive \cup {"dropping"})
             => /\ ul[t].reclaim = NoName => ul'[t].reclaim = NoName
                /\ ul'[t].reclaim # ul[t].reclaim
                   => /\ ul'[t].reclaim = NoName /\ ul'[t].forgot
                      /\ upc[t] = "bound" /\ upc'[t] \in {"bound", "raw"}
                      /\ ul'[t].nonblocking = ul[t].nonblocking
                      /\ ul'[t].accepted = ul[t].accepted
          /\ ({upc[t], upc'[t]} = {"bound", "accepting"}
                \/ (upc[t] = "bound" /\ upc'[t] = "bound"
                      /\ ul'[t].nonblocking # ul[t].nonblocking))
             => ul'[t].reclaim = ul[t].reclaim /\ ul'[t].forgot = ul[t].forgot ]_vars

C30_Witness ==
    \E t \in Threads :
        /\ upc[t] = "bound"
        /\ ul[t].how = "bind" /\ ul[t].name = PathA
        /\ ul[t].forgot /\ ul[t].reclaim = NoName
        /\ ul[t].accepted /\ ul[t].nonblocking
        /\ PathA.text \in sockfile


\* The step in which t's accept fails in its wait for a client.
WaitFailed(t) == wpc[t] = "acc_wait" /\ wpc'[t] = "idle"

\* C31: when a Windows accept fails in the wait-for-client step, with
\* WouldBlock or with any other error of the wait, the listener is as it was:
\* the slot holds the same instance, no instance has been created, the
\* nonblocking flag and the stored options are unchanged, and the lock is free;
\* nothing of this has changed either since the accept took the lock.
C31_WaitFailureChangesNothing ==
    [][ \A t \in Threads :
          /\ WaitFailed(t)
             => /\ block_on_connect(ConnectNamedPipe(stored)).kind # "Ok"
                /\ wlast' = Event("accept", block_on_connect(ConnectNamedPipe(stored)), NoInst)
                /\ stored' = stored /\ inst' = inst /\ nextInst' = nextInst
                /\ wnb' = wnb /\ wcfg' = wcfg /\ wexists' = wexists
                /\ wlock = t /\ wlock' = NoThread
                /\ wloc'[t] = NoLocals
          /\ wpc[t] = "acc_wait"
             => /\ stored' = stored /\ nextInst' = nextInst /\ wnb' = wnb
                /\ inst'[stored].nb = inst[stored].nb ]_vars

C31_Witness ==
    /\ wlast.ev = "accept" /\ wlast.res.raw = "ERROR_PIPE_LISTENING"
    /\ wlock = NoThread
    /\ inst[stored].st = "listening" /\ inst[stored].nb /\ wnb
    /\ nextInst = stored + 1
    /\ \E i \in InstIds : inst[i].out = 1 /\ i # stored
    /\ \A t \in Threads : wpc[t] = "idle"


\* The step in which t's accept fails to create the replacement instance.
CreateFailed(t) == wpc[t] = "acc_create" /\ wpc'[t] = "idle"

\* The step in which t's accept swaps and returns its stream.
AcceptReturned(t) == wpc[t] = "acc_swap" /\ wpc'[t] = "idle"

\* C32: when a Windows accept fails while creating the replacement instance,
\* the instance its client connected to stays in the slot, untouched and not
\* handed out; from then on, until an accept succeeds, the slot keeps that
\* instance, no accept blocks in its wait, and the first accept whose creation
\* succeeds returns the stream on that very instance.
C32_ClientKeptAfterCreateFailure ==
    [][ /\ \A t \in Threads :
              /\ CreateFailed(t)
                 => /\ wdeg'
                    /\ stored' = stored /\ inst'[stored] = inst[stored]
                    /\ inst[stored].st \in {"connected", "gone"}
                    /\ inst[stored].out = 0
              /\ wdeg
                 => /\ wpc[t] # "acc_blocked" /\ wpc'[t] # "acc_blocked"
                    /\ (wpc[t] = "acc_create" /\ wpc'[t] = "acc_swap")
                          => inst[stored].st \in {"connected", "gone"}
              /\ (wdeg /\ AcceptReturned(t))
                 => /\ wlast' = Event("accept", OkRes, stored)
                    /\ inst'[stored].out = 1
                    /\ stored' # stored
                    /\ ~wdeg'
        /\ wdeg
           => /\ inst[stored].st \in {"connected", "gone"} /\ inst[stored].out = 0
              /\ stored' # stored => \E t \in Threads : AcceptReturned(t) ]_vars

C32_Witness ==
    \E t \in Threads :
        /\ wdeg
        /\ wpc[t] = "acc_swap" /\ wlock = t
        /\ inst[stored].st = "connected" /\ inst[stored].out = 0
        /\ wloc[t].new # stored /\ inst[wloc[t].new].st = "listening"


\* The instances accepts have handed out as streams.
HandedOut == {i \in InstIds : inst[i].out > 0}

\* The instances created so far: the first one by create(), the others by
\* accepts.
Created == 1..(nextInst - 1)

\* C33: when several threads call accept on one Windows PipeListener, under
\* every interleaving no instance is handed out twice, every instance handed
\* out is one a client had connected to and one that was in the slot, and the
\* instances created are the first one and one per successful accept, plus the
\* one of an accept that has created its replacement and has yet to swap.
C33_ConcurrentAcceptsDisjoint ==
    [][ /\ \A i \in InstIds : inst[i].out <= 1 /\ inst'[i].out <= 1
        /\ \A t \in Threads :
              AcceptReturned(t)
              => /\ inst[stored].out = 0 /\ inst'[stored].out = 1
                 /\ inst[stored].st \in {"connected", "gone"}
                 /\ \A i \in InstIds \ {stored} : inst'[i].out = inst[i].out
                 /\ \A u \in Threads \ {t} : wpc[u] \notin AcceptLocked
        /\ HandedOut' # HandedOut
              => \E t \in Threads : AcceptReturned(t) /\ HandedOut' = HandedOut \cup {stored}
        /\ wexists
              => /\ HandedOut \subseteq Created /\ stored \in Created \ HandedOut
                 /\ Cardinality(Created)
                       = 1 + Cardinality(HandedOut)
                           + Cardinality({t \in Threads : wpc[t] = "acc_swap"})
                 /\ Cardinality({t \in Threads : wpc[t] \in AcceptLocked}) <= 1 ]_vars

C33_Witness ==
    \E t \in Threads, u \in Threads :
        /\ t # u
        /\ wpc[t] = "acc_swap" /\ wpc[u] = "acc_lock"
        /\ Cardinality(HandedOut) = 1
        /\ Cardinality(Created) = 3
        /\ inst[stored].st = "connected"


\* The step in which a bind of t returns an error.
BindFailed(t) ==
    /\ ures'[t] # ures[t]
    /\ ures'[t].res.kind \notin {"Ok", "none"}

\* C34: a Unix bind that fails, in particular with AddrInUse because a
\* listener holds the name, makes no listener and no reclaim guard and deletes
\* nothing: the socket files and abstract bindings are as before, the caller is
\* left with nothing to drop, and the listener that owns the name is untouched:
\* open, bound to its name, with the clients queued on it still queued.
C34_FailedBindTouchesNothing ==
    [][ \A t \in Threads :
          BindFailed(t)
          => /\ sockfile' = sockfile /\ absbound' = absbound
             /\ ul' = ul /\ upending' = upending /\ nhist' = nhist
             /\ ul'[t] = NoListener /\ upc'[t] = "idle"
             /\ \A u \in Threads \ {t} : upc'[u] = upc[u]
             /\ ures'[t].res.kind = "AddrInUse" => Occupied(ures'[t].name)
             /\ \A u \in Threads \ {t} :
                   (upc[u] \in {"bound", "accepting"} /\ ul[u].name = ures'[t].name)
                   => /\ ul'[u].fdOpen /\ ul'[u].reclaim = ul[u].reclaim
                      /\ (ul[u].name.kind = "path"
                            => (ul[u].name.text \in sockfile') = (ul[u].name.text \in sockfile)) ]_vars

C34_Witness ==
    \E t \in Threads, u \in Threads :
        /\ t # u
        /\ upc[t] = "idle" /\ ul[t] = NoListener
        /\ ures[t].name = PathA /\ ures[t].keep /\ ures[t].prior = "live"
        /\ ures[t].res.kind = "AddrInUse"
        /\ upc[u] = "bound" /\ ul[u].name = PathA /\ ul[u].reclaim = PathA
        /\ uacc[u].kind = "Ok"
        /\ PathA.text \in sockfile


\* The threads whose listener (or the value it was converted into) has its
\* descriptor open on name n.
Holders(n) ==
    {t \in Threads : upc[t] \in {"bound", "accepting", "raw"} /\ ul[t].fdOpen /\ ul[t].name = n}

\* Holders(n) after the step.
HoldersAfter(n) ==
    {t \in Threads : upc'[t] \in {"bound", "accepting", "raw"} /\ ul'[t].fdOpen /\ ul'[t].name = n}

\* The step in which a bind of t succeeds.
BindSucceeded(t) == upc[t] = "binding" /\ upc'[t] = "bound"

\* C35: on Unix, under every interleaving of the binds, forgets and drops of
\* several threads, at most one listener with an open descriptor is bound to a
\* name at any time; a bind of a path name succeeds only when no socket file
\* of that name exists and no listener of that name is left, not even one in
\* the middle of its drop: a bind that races with the drop of a reclaiming
\* listener fails until the descriptor is closed and the file removed.
C35_OneLiveListenerPerName ==
    [][ /\ \A n \in Names : Cardinality(Holders(n)) <= 1 /\ Cardinality(HoldersAfter(n)) <= 1
        /\ \A t \in Threads :
              (upc[t] = "dropping" /\ ul[t].reclaim.kind = "path")
              => ~ul[t].fdOpen /\ ul[t].reclaim.text \in sockfile
        /\ \A t \in Threads :
              (BindSucceeded(t) /\ ucall[t].name.kind = "path")
              => /\ ucall[t].name.text \notin sockfile
                 /\ Holders(ucall[t].name) = {}
                 /\ \A u \in Threads \ {t} :
                       upc[u] = "dropping" => ul[u].name # ucall[t].name
                 /\ HoldersAfter(ucall[t].name) = {t} ]_vars

C35_Witness ==
    \E t \in Threads, u \in Threads :
        /\ t # u
        /\ upc[t] = "dropping" /\ ul[t].name = PathA /\ ul[t].reclaim = PathA
        /\ ~ul[t].fdOpen /\ PathA.text \in sockfile
        /\ upc[u] = "idle"
        /\ ures[u].name = PathA /\ ures[u].prior = "dropping"
        /\ ures[u].res.kind = "AddrInUse"


\* Positions of a call at which it holds the slot lock.
LockHeldAt == AcceptLocked \cup {"snb_native"}

\* C36: the slot lock of a Windows PipeListener is held only by a call that is
\* in progress between taking it and returning; every return of accept
\* (success, failed wait, failed creation) and of set_nonblocking (success,
\* failed native call) frees it; and a call that holds it gives it up unless
\* it is an accept blocked in its wait for a client, so that no call that has
\* returned keeps a later call waiting.
C36_LockFreedOnEveryExit ==
    /\ [](\A t \in Threads : (wlock = t) <=> (wpc[t] \in LockHeldAt))
    /\ [][ \A t \in Threads :
             (wpc[t] \in LockHeldAt /\ wpc'[t] = "idle")
             => /\ wlock' = NoThread
                /\ wlast'.ev \in {"accept", "set_nonblocking"} ]_vars
    /\ \A t \in Threads :
          (wlock = t) ~> (wlock = NoThread \/ wpc[t] = "acc_blocked")

C36_Witness ==
    \E t \in Threads, u \in Threads :
        /\ t # u
        /\ wdeg /\ wsnb = "err"
        /\ wlock = t /\ wpc[t] = "acc_wait"
        /\ wpc[u] = "snb_lock"

====
